---------------------------- MODULE Spec2Model ----------------------------
(***************************************************************************)
(* Request orchestration and caching layer of the muscle analysis app:     *)
(* FireworksAIService (retrying API client, response parser and repair),   *)
(* CacheManager, QueueManager and the useAPIAnalysis hook.                 *)
(*                                                                         *)
(* Text is modelled as a sequence of lexical tokens.  A token is a record  *)
(* [k, v]: k = "p" punctuation ({ } [ ] , :), "s" a complete string        *)
(* literal, "n" a number literal [k, num], "l" true/false/null, "w" white  *)
(* space, "x" any other text (prose, or a literal cut off by truncation).  *)
(* String literals of the modelled documents hold no brace, bracket or     *)
(* comma, so the regular expressions of the source, which work on          *)
(* characters, see exactly the punctuation tokens.                         *)
(*                                                                         *)
(* A JSON value is a record tagged by t: "obj" (o a function from keys to  *)
(* values), "arr" (a a sequence), "str" (s), "num" (n), "bool" (b), "null". *)
(***************************************************************************)
EXTENDS Integers, Sequences, FiniteSets, TLC

(***************************************************************************)
(* Tokens                                                                  *)
(***************************************************************************)
P(c) == [k |-> "p", v |-> c]
S(c) == [k |-> "s", v |-> c]
N(c) == [k |-> "n", num |-> c]
L(c) == [k |-> "l", v |-> c]
X(c) == [k |-> "x", v |-> c]
WS == [k |-> "w", v |-> " "]

IsP(tok, c) == tok.k = "p" /\ tok.v = c

(***************************************************************************)
(* JSON values                                                             *)
(***************************************************************************)
JObj(f) == [t |-> "obj", o |-> f]
JArr(s) == [t |-> "arr", a |-> s]
JStr(s) == [t |-> "str", s |-> s]
JNum(n) == [t |-> "num", n |-> n]
JBool(b) == [t |-> "bool", b |-> b]
JNull == [t |-> "null"]
Undefined == [t |-> "undefined"]
\* the object without members
EmptyObject == JObj([key \in {} |-> Undefined])

(***************************************************************************)
(* JSON.parse: a recursive descent parser over the tokens.  A result is    *)
(* [ok, val, pos]: pos is the index of the first token after the value.    *)
(***************************************************************************)
ParseFail == [ok |-> FALSE, val |-> Undefined, pos |-> 0]
ParseOk(val, pos) == [ok |-> TRUE, val |-> val, pos |-> pos]

RECURSIVE SkipWs(_, _)
SkipWs(toks, i) ==
  IF i <= Len(toks) /\ toks[i].k = "w" THEN SkipWs(toks, i + 1) ELSE i

\* the object built from a list of <<key, value>> members; a repeated key
\* keeps the value of its last occurrence, as JSON.parse does
ObjectOf(members) ==
  LET keys == {members[n][1] : n \in DOMAIN members}
      last(key) == CHOOSE n \in DOMAIN members :
                     /\ members[n][1] = key
                     /\ \A m \in DOMAIN members : members[m][1] = key => m <= n
  IN JObj([key \in keys |-> members[last(key)][2]])

RECURSIVE ParseValue(_, _), ParseMembers(_, _, _), ParseElements(_, _, _)

ParseAfterMember(toks, r, key, acc) ==
  IF ~r.ok THEN ParseFail
  ELSE LET j == SkipWs(toks, r.pos)
           acc2 == Append(acc, <<key, r.val>>)
       IN IF j > Len(toks) THEN ParseFail
          ELSE IF IsP(toks[j], ",") THEN ParseMembers(toks, j + 1, acc2)
          ELSE IF IsP(toks[j], "}") THEN ParseOk(ObjectOf(acc2), j + 1)
          ELSE ParseFail

ParseMembers(toks, i0, acc) ==
  LET i == SkipWs(toks, i0)
  IN IF i > Len(toks) \/ toks[i].k # "s" THEN ParseFail
     ELSE LET j == SkipWs(toks, i + 1)
          IN IF j > Len(toks) \/ ~IsP(toks[j], ":") THEN ParseFail
             ELSE ParseAfterMember(toks, ParseValue(toks, j + 1), toks[i].v, acc)

ParseAfterElement(toks, r, acc) ==
  IF ~r.ok THEN ParseFail
  ELSE LET j == SkipWs(toks, r.pos)
           acc2 == Append(acc, r.val)
       IN IF j > Len(toks) THEN ParseFail
          ELSE IF IsP(toks[j], ",") THEN ParseElements(toks, j + 1, acc2)
          ELSE IF IsP(toks[j], "]") THEN ParseOk(JArr(acc2), j + 1)
          ELSE ParseFail

ParseElements(toks, i, acc) ==
  ParseAfterElement(toks, ParseValue(toks, i), acc)

ParseValue(toks, i0) ==
  LET i == SkipWs(toks, i0)
  IN IF i > Len(toks) THEN ParseFail
     ELSE LET tok == toks[i]
              j == SkipWs(toks, i + 1)
          IN CASE tok.k = "s" -> ParseOk(JStr(tok.v), i + 1)
               [] tok.k = "n" -> ParseOk(JNum(tok.num), i + 1)
               [] tok.k = "l" ->
                    ParseOk(IF tok.v = "null" THEN JNull
                            ELSE JBool(tok.v = "true"), i + 1)
               [] IsP(tok, "{") ->
                    IF j <= Len(toks) /\ IsP(toks[j], "}")
                    THEN ParseOk(EmptyObject, j + 1)
                    ELSE ParseMembers(toks, i + 1, <<>>)
               [] IsP(tok, "[") ->
                    IF j <= Len(toks) /\ IsP(toks[j], "]")
                    THEN ParseOk(JArr(<<>>), j + 1)
                    ELSE ParseElements(toks, i + 1, <<>>)
               [] OTHER -> ParseFail

\* JSON.parse(str): the whole text must be one value; it throws otherwise
JSONParseWhole(toks, r) ==
  IF r.ok /\ SkipWs(toks, r.pos) = Len(toks) + 1 THEN r ELSE ParseFail

JSONParse(toks) == JSONParseWhole(toks, ParseValue(toks, 1))

isValidJSON(str) == JSONParse(str).ok

(***************************************************************************)
(* fixTruncatedJSON                                                        *)
(***************************************************************************)
\* String.prototype.trim
RECURSIVE TrimLeft(_), TrimRight(_)
TrimLeft(str) ==
  IF str # <<>> /\ Head(str).k = "w" THEN TrimLeft(Tail(str)) ELSE str
TrimRight(str) ==
  IF str # <<>> /\ str[Len(str)].k = "w"
  THEN TrimRight(SubSeq(str, 1, Len(str) - 1)) ELSE str
Trim(str) == TrimRight(TrimLeft(str))

\* (str.match(/c/g) || []).length
CountOf(str, c) == Cardinality({i \in DOMAIN str : IsP(str[i], c)})

\* str followed by n copies of the closer c
Closers(c, n) == [i \in 1..n |-> P(c)]
AppendClosers(str, c, n) == str \o Closers(c, IF n > 0 THEN n ELSE 0)

\* str.replace(/,(\s*[}\]])/g, '$1'): a comma is dropped when only white
\* space separates it from the next closing brace or bracket
CommaBeforeCloser(str, i) ==
  /\ IsP(str[i], ",")
  /\ LET j == SkipWs(str, i + 1)
     IN j <= Len(str) /\ (IsP(str[j], "}") \/ IsP(str[j], "]"))

RECURSIVE StripFrom(_, _)
StripFrom(str, i) ==
  IF i > Len(str) THEN <<>>
  ELSE IF CommaBeforeCloser(str, i) THEN StripFrom(str, i + 1)
  ELSE <<str[i]>> \o StripFrom(str, i + 1)

StripTrailingCommas(str) == StripFrom(str, 1)

\* str.match(/^.*\}(?=\s*$)/s): the text up to the last closing brace,
\* provided nothing but white space follows that brace; no match otherwise
LastCompleteMatch(str) ==
  LET t == TrimRight(str)
  IN IF t # <<>> /\ IsP(t[Len(t)], "}") THEN t ELSE str

fixTruncatedJSON(jsonString) ==
  LET cleaned0 == Trim(jsonString)
      cleaned1 == AppendClosers(cleaned0, "}",
                     CountOf(cleaned0, "{") - CountOf(cleaned0, "}"))
      cleaned2 == AppendClosers(cleaned1, "]",
                     CountOf(cleaned1, "[") - CountOf(cleaned1, "]"))
      cleaned3 == StripTrailingCommas(cleaned2)
  IN IF ~isValidJSON(cleaned3) THEN LastCompleteMatch(cleaned3) ELSE cleaned3

(***************************************************************************)
(* validateAnalysisResponse                                                *)
(***************************************************************************)
NoError == "none"

\* data[field]: undefined unless data is an object that has the field
Get(data, field) ==
  IF data.t = "obj" /\ field \in DOMAIN data.o THEN data.o[field] ELSE Undefined

\* JavaScript truthiness, the negation of the ! operator
Truthy(val) ==
  CASE val.t = "str" -> val.s # ""
    [] val.t = "num" -> val.n # 0
    [] val.t = "bool" -> val.b
    [] val.t \in {"null", "undefined"} -> FALSE
    [] OTHER -> TRUE

requiredFields ==
  <<"analysis_metadata", "muscle_analysis", "overall_assessment", "recommendations">>

\* reading a property of null or undefined throws a TypeError
Nullish(val) == val.t \in {"null", "undefined"}

\* a variant that forgets the upper bound of the score
InvalidMuscleEntryNoUpperBound(muscle) ==
  \/ ~Truthy(Get(muscle, "muscle_name"))
  \/ Get(muscle, "development_score").t # "num"
  \/ Get(muscle, "development_score").n < 1

InvalidMuscleEntry(muscle) ==
  \/ ~Truthy(Get(muscle, "muscle_name"))
  \/ Get(muscle, "development_score").t # "num"
  \/ Get(muscle, "development_score").n < 1
  \/ Get(muscle, "development_score").n > 10

\* the message of the error validateAnalysisResponse throws, NoError if none
validateAnalysisResponse(data) ==
  IF Nullish(data) THEN "TypeError"
  ELSE IF \E i \in DOMAIN requiredFields : ~Truthy(Get(data, requiredFields[i]))
  THEN LET first == CHOOSE i \in DOMAIN requiredFields :
                      /\ ~Truthy(Get(data, requiredFields[i]))
                      /\ \A j \in 1..(i - 1) : Truthy(Get(data, requiredFields[j]))
       IN "Missing required field: " \o requiredFields[first]
  ELSE IF \/ ~Truthy(Get(Get(data, "analysis_metadata"), "image_quality"))
          \/ Get(Get(data, "analysis_metadata"), "analysis_confidence").t # "num"
  THEN "Invalid analysis metadata"
  ELSE IF \/ Get(data, "muscle_analysis").t # "arr"
          \/ Len(Get(data, "muscle_analysis").a) = 0
  THEN "Invalid muscle analysis data"
  ELSE LET muscles == Get(data, "muscle_analysis").a
           offending == {i \in DOMAIN muscles :
                           Nullish(muscles[i]) \/ InvalidMuscleEntry(muscles[i])}
       IN IF offending = {} THEN NoError
          ELSE IF Nullish(muscles[CHOOSE i \in offending :
                                    \A j \in offending : i <= j])
          THEN "TypeError"
          ELSE "Invalid muscle analysis entry"

(***************************************************************************)
(* parseResponse                                                           *)
(***************************************************************************)
\* contentStr.match(/\{[\s\S]*\}/): from the first opening brace to the last
\* closing brace, <<>> when no closing brace follows an opening one
JsonMatch(contentStr) ==
  LET opens == {i \in DOMAIN contentStr : IsP(contentStr[i], "{")}
      closes == {i \in DOMAIN contentStr : IsP(contentStr[i], "}")}
  IN IF opens = {} THEN <<>>
     ELSE LET a == CHOOSE i \in opens : \A j \in opens : i <= j
              after == {i \in closes : i > a}
          IN IF after = {} THEN <<>>
             ELSE SubSeq(contentStr, a,
                         CHOOSE i \in after : \A j \in after : j <= i)

\* the text handed to the final JSON.parse of the inner try block
JsonCandidate(contentStr) ==
  LET jsonMatch == JsonMatch(contentStr)
      text == IF jsonMatch # <<>> THEN jsonMatch ELSE contentStr
  IN IF ~isValidJSON(text) THEN fixTruncatedJSON(text) ELSE text

ParseResult(ok, data, message) == [ok |-> ok, data |-> data, message |-> message]

\* the outer catch replaces every error by 'Invalid response format from AI'
InvalidFormat == ParseResult(FALSE, Undefined, "Invalid response format from AI")

\* a variant without the call of validateAnalysisResponse
parseResponseUnvalidated(content) ==
  IF content = <<>> THEN InvalidFormat
  ELSE LET parsed == JSONParse(JsonCandidate(content))
       IN IF ~parsed.ok THEN InvalidFormat
          ELSE ParseResult(TRUE, parsed.val, NoError)

\* response.choices?.[0]?.message?.content is the token text `content`;
\* an absent or empty content is <<>>
parseResponse(content) ==
  IF content = <<>> THEN InvalidFormat
  ELSE LET parsed == JSONParse(JsonCandidate(content))
       IN IF ~parsed.ok THEN InvalidFormat
          ELSE IF validateAnalysisResponse(parsed.val) # NoError THEN InvalidFormat
          ELSE ParseResult(TRUE, parsed.val, NoError)

(***************************************************************************)
(* Error classification of the API client                                  *)
(***************************************************************************)
maxRetries == 3

\* what a rejected request throws: an AxiosError without a response (network
\* failure, timeout), an AxiosError with an HTTP status, or a plain Error
AxiosNoResponse ==
  [axios |-> TRUE, response |-> FALSE, status |-> 0, message |-> "Network Error"]
AxiosStatus(status) ==
  [axios |-> TRUE, response |-> TRUE, status |-> status,
   message |-> "Request failed with status code " \o ToString(status)]
PlainError(message) ==
  [axios |-> FALSE, response |-> FALSE, status |-> 0, message |-> message]

ErrorStatuses == {400, 401, 403, 404, 408, 429, 500, 503, 504}

isRetryableError(error) ==
  IF ~error.response THEN TRUE
  ELSE error.status = 429 \/ error.status = 503 \/ error.status >= 500

APIError(code, message, retryable, userMessage) ==
  [code |-> code, message |-> message, retryable |-> retryable,
   userMessage |-> userMessage]

\* handleError without the cases 408 and 504 of its switch
handleErrorWithoutTimeoutCase(error) ==
  IF error.axios
  THEN IF ~error.response
       THEN APIError("NETWORK_ERROR", error.message, TRUE,
              "Unable to connect. Please check your internet connection.")
       ELSE CASE error.status \in {401, 403} ->
                   APIError("AUTH_ERROR", "Authentication failed", FALSE,
                     "Authentication Error")
              [] error.status = 429 ->
                   APIError("RATE_LIMIT", "Rate limit exceeded", TRUE,
                     "Too many requests. Please wait a moment and try again.")
              [] OTHER ->
                   IF error.status >= 500
                   THEN APIError("SERVER_ERROR",
                          "Server error: " \o ToString(error.status), TRUE,
                          "Server Error")
                   ELSE APIError("UNKNOWN_ERROR",
                          "HTTP " \o ToString(error.status) \o ": ", FALSE,
                          "Unexpected Error")
  ELSE APIError("UNKNOWN_ERROR", error.message, FALSE, "Unexpected Error")

\* the body of the HTTP response (details, JSON.stringify(data)) is not
\* modelled; messages that quote it end where the quotation starts
handleError(error) ==
  IF error.axios
  THEN IF ~error.response
       THEN APIError("NETWORK_ERROR", error.message, TRUE,
              "Unable to connect. Please check your internet connection.")
       ELSE CASE error.status = 401 ->
                   APIError("AUTH_ERROR", "Authentication failed - Invalid API key",
                     FALSE,
                     "Authentication Error: Invalid or missing API key. Set EXPO_PUBLIC_FIREWORKS_API_KEY in your .env and restart the app.")
              [] error.status = 404 ->
                   APIError("UNKNOWN_ERROR", "Model not found or inaccessible",
                     FALSE,
                     "Model Error: The requested model was not found or is inaccessible. Verify model ID (accounts/fireworks/models/llama-v3p2-11b-vision-instruct), serverless availability, and API key permissions.")
              [] error.status = 429 ->
                   APIError("RATE_LIMIT", "Rate limit exceeded", TRUE,
                     "Too many requests. Please wait a moment and try again.")
              [] error.status \in {408, 504} ->
                   APIError("API_TIMEOUT", "Request timeout", TRUE,
                     "Analysis is taking longer than expected. Please try again.")
              [] error.status = 400 ->
                   APIError("UNKNOWN_ERROR", "Bad request: ", FALSE,
                     "Request Error: Invalid request format. Please try with a different image.")
              [] error.status = 403 ->
                   APIError("AUTH_ERROR", "Forbidden - insufficient permissions",
                     FALSE, "Permission Error: Your API key does not have sufficient permissions.")
              [] OTHER ->
                   IF error.status >= 500
                   THEN APIError("SERVER_ERROR",
                          "Server error: " \o ToString(error.status), TRUE,
                          "Server Error (" \o ToString(error.status)
                            \o "): The AI service is temporarily unavailable. Please try again later.")
                   ELSE APIError("UNKNOWN_ERROR",
                          "HTTP " \o ToString(error.status) \o ": ", FALSE,
                          "Unexpected Error (" \o ToString(error.status)
                            \o "): Please try again or contact support.")
  ELSE APIError("UNKNOWN_ERROR",
         IF error.message # "" THEN error.message ELSE "Unknown error occurred",
         FALSE,
         "Unexpected Error: "
           \o (IF error.message # "" THEN error.message ELSE "Something went wrong")
           \o ". Please try again.")

(***************************************************************************)
(* ImageProcessor.furtherCompress                                          *)
(***************************************************************************)
\* a quality is a double, written in units of 1e-8 and rounded up: the double
\* 0.40000000000000013 is 40000001, and 0.4 is 40000000
COMPRESSION_QUALITY == 80000000
MAX_FILE_SIZE == 1048576
MAX_WIDTH == 1024

\* `quality -= 0.1` on the doubles the loop meets from a config.quality of
\* 0.8 (0.7000000000000001, 0.6000000000000001, 0.5000000000000001,
\* 0.40000000000000013, 0.30000000000000016) and of 0.5 (0.4,
\* 0.30000000000000004)
MinusTenth(quality) ==
  CASE quality = 80000000 -> 70000001
    [] quality = 40000000 -> 30000001
    [] OTHER -> quality - 10000000

\* Math.floor(n * 0.8)
Shrunk(n) == (n * 8) \div 10

\* the loop of furtherCompress is entered (`quality > 0.3`)
TriesAgain(quality) == quality > 30000000

\* `quality <= 0.4`: the dimensions are reduced and the quality is reset
ReducesDimensions(quality) == quality <= 40000000

\* `quality = config.quality`
ResetQuality(configQuality, quality) == configQuality

(***************************************************************************)
(* ImageProcessor.validateImageFormat                                      *)
(***************************************************************************)
\* 'jpg', 'jpeg' and 'png', as sequences of character codes
SUPPORTED_FORMATS ==
  {<<106, 112, 103>>, <<106, 112, 101, 103>>, <<112, 110, 103>>}

\* String.prototype.toLowerCase on the letters A to Z
toLowerCase(str) ==
  [i \in DOMAIN str |-> IF str[i] \in 65..90 THEN str[i] + 32 ELSE str[i]]

\* `imageUri.split('.').pop()`: what follows the last '.', the whole URI if
\* it has none
LastSegment(imageUri) ==
  LET dots == {i \in DOMAIN imageUri : imageUri[i] = 46}
  IN IF dots = {} THEN imageUri
     ELSE SubSeq(imageUri, (CHOOSE i \in dots : \A j \in dots : j <= i) + 1,
                 Len(imageUri))

\* validateImageFormat goes on to FileSystem.getInfoAsync: the extension is
\* not empty and is one of SUPPORTED_FORMATS
SupportedFormat(imageUri) ==
  /\ LastSegment(imageUri) # <<>>
  /\ toLowerCase(LastSegment(imageUri)) \in SUPPORTED_FORMATS

\* the message of the Error validateImageFormat throws otherwise
UnsupportedFormat == "Unsupported image format. Please use: jpg, jpeg, png"

(***************************************************************************)
(* APIStateManager                                                         *)
(***************************************************************************)
APIState(isLoading, progress, statusMessage, error, count) ==
  [isLoading |-> isLoading, progress |-> progress,
   statusMessage |-> statusMessage, error |-> error, retryCount |-> count]

\* updateState without notifyListeners: the fields of `updates` replace
\* those of the state
updateState(state, updates) ==
  [field \in DOMAIN state |->
     IF field \in DOMAIN updates THEN updates[field] ELSE state[field]]

\* what setLoading, updateProgress and setError give to updateState; an
\* absent message is ""
setLoading(isLoading, message) ==
  [isLoading |-> isLoading, statusMessage |-> message,
   progress |-> IF isLoading THEN 0 ELSE 100]

Clamp(progress) ==
  IF progress > 100 THEN 100 ELSE IF progress < 0 THEN 0 ELSE progress

updateProgress(state, progress, message) ==
  [progress |-> Clamp(progress),
   statusMessage |-> IF message # "" THEN message ELSE state.statusMessage]

setError(error) == [isLoading |-> FALSE, error |-> error, progress |-> 0]

incrementRetry(state) == [retryCount |-> state.retryCount + 1]

\* the states the listeners are notified of when the updates are applied
\* one after the other
RECURSIVE Notified(_, _)
Notified(state, updates) ==
  IF Len(updates) = 0 THEN <<>>
  ELSE LET next == updateState(state, Head(updates))
       IN <<next>> \o Notified(next, Tail(updates))

(***************************************************************************)
(* CacheManager                                                            *)
(***************************************************************************)
DEFAULT_DURATION == 0
MAX_CACHE_SIZE == 50
STORAGE_KEY_PREFIX == "muscle_ai_cache_"

\* An image URI is the sequence of its character codes.
\* `hash = ((hash << 5) - hash) + char; hash = hash & hash`: 31 * hash + char
\* reduced to a signed 32-bit integer, computed on 16-bit halves
HashStep(hash, char) ==
  LET lo == hash % 65536
      hi == (hash \div 65536) % 65536
      low == (lo * 31) + char
      high == ((hi * 31) + (low \div 65536)) % 65536
  IN IF high >= 32768
     THEN ((high - 65536) * 65536) + (low % 65536)
     ELSE (high * 65536) + (low % 65536)

RECURSIVE HashFrom(_, _, _)
HashFrom(imageUri, i, hash) ==
  IF i > Len(imageUri) THEN hash
  ELSE HashFrom(imageUri, i + 1, HashStep(hash, imageUri[i]))

Abs(n) == IF n < 0 THEN 0 - n ELSE n

Digits36 ==
  <<"0", "1", "2", "3", "4", "5", "6", "7", "8", "9", "a", "b", "c", "d", "e",
    "f", "g", "h", "i", "j", "k", "l", "m", "n", "o", "p", "q", "r", "s", "t",
    "u", "v", "w", "x", "y", "z">>

\* Number.prototype.toString(36), as the sequence of its digits
RECURSIVE ToString36(_)
ToString36(n) ==
  IF n < 36 THEN <<Digits36[n + 1]>>
  ELSE ToString36(n \div 36) \o <<Digits36[(n % 36) + 1]>>

generateImageHash(imageUri) == ToString36(Abs(HashFrom(imageUri, 1, 0)))

generateCacheKey(imageUri) == <<STORAGE_KEY_PREFIX>> \o generateImageHash(imageUri)

\* `${this.cacheKeyPrefix}index`, the key the index is stored under; it is
\* the cache key of every image whose hash is "index"
indexKey == <<STORAGE_KEY_PREFIX, "i", "n", "d", "e", "x">>

\* The cache in AsyncStorage is a function from the keys that hold a value
\* to the value parsed from the stored text: a cache entry, or the array of
\* the index.  getItem gives null (NoEntry) for a key that holds nothing.
NoEntry == [absent |-> TRUE]

CacheEntry(analysis, timestamp, expiresAt, imageHash) ==
  [data |-> analysis, timestamp |-> timestamp, expiresAt |-> expiresAt,
   imageHash |-> imageHash]

\* the array of {key, timestamp} items
CacheIndex(items) == [items |-> items]

IsArray(value) == DOMAIN value = {"items"}

getItem(storage, key) == IF key \in DOMAIN storage THEN storage[key] ELSE NoEntry

setItem(storage, key, value) ==
  [k \in DOMAIN storage \cup {key} |-> IF k = key THEN value ELSE storage[k]]

multiRemove(storage, keys) == [k \in DOMAIN storage \ keys |-> storage[k]]

removeItem(storage, key) == multiRemove(storage, {key})

\* the keys of AsyncStorage that start with cacheKeyPrefix
getAllKeys(storage) == DOMAIN storage

\* no operation of AsyncStorage rejects
NoFault == {}

\* the operations of AsyncStorage that reject together: the reads, the
\* writes, the removals, or all that change what is stored
StorageFaults ==
  {{"getItem"}, {"setItem"}, {"removeItem"}, {"setItem", "removeItem"}}

\* getCacheIndex: what is stored under the key of the index, [] when
\* nothing is or when the read rejects
getCacheIndex(fault, storage) ==
  IF "getItem" \in fault \/ indexKey \notin DOMAIN storage THEN CacheIndex(<<>>)
  ELSE storage[indexKey]

\* the items of the index the storage holds; none when the key of the index
\* holds no array
ItemsOf(storage) ==
  IF IsArray(getCacheIndex(NoFault, storage))
  THEN getCacheIndex(NoFault, storage).items
  ELSE <<>>

\* the index removeCacheEntry writes
IndexWithout(cacheIndex, cacheKey) ==
  SelectSeq(cacheIndex, LAMBDA item : item.key # cacheKey)

\* removeCacheEntry, with no storage failure: when what it reads under the
\* key of the index is no array, `index.filter` throws into its catch block
removeCacheEntry(cache, cacheKey) ==
  LET removed == removeItem(cache, cacheKey)
      index == getCacheIndex(NoFault, removed)
  IN IF IsArray(index)
     THEN setItem(removed, indexKey, CacheIndex(IndexWithout(index.items, cacheKey)))
     ELSE removed

\* `this.cacheDuration > 0 ? Date.now() + this.cacheDuration : 0`
ExpiresAt(cacheDuration, time) ==
  IF cacheDuration > 0 THEN time + cacheDuration ELSE 0

\* the index sorted by timestamp, oldest first (Array.prototype.sort is
\* stable); removeCacheEntry reads the stored index again, so the order of
\* the stored index is not changed by the sort
SortByTimestamp(index) ==
  LET Before(i) == {j \in DOMAIN index :
                      \/ index[j].timestamp < index[i].timestamp
                      \/ index[j].timestamp = index[i].timestamp /\ j < i}
  IN [k \in DOMAIN index |->
        index[CHOOSE i \in DOMAIN index : Cardinality(Before(i)) = k - 1]]

RECURSIVE RemoveAll(_, _)
RemoveAll(cache, toRemove) ==
  IF toRemove = <<>> THEN cache
  ELSE RemoveAll(removeCacheEntry(cache, Head(toRemove).key), Tail(toRemove))

KeysOfItems(cacheIndex) == {cacheIndex[i].key : i \in DOMAIN cacheIndex}

\* a variant that takes the entries to remove from the unsorted index
EvictedUnsorted(cacheIndex, maxCacheSize) ==
  IF Len(cacheIndex) >= maxCacheSize
  THEN SubSeq(cacheIndex, 1, (maxCacheSize * 2) \div 10)
  ELSE <<>>

\* a variant that evicts only when the index holds more than maxCacheSize
EvictedWhenOver(cacheIndex, maxCacheSize) ==
  IF Len(cacheIndex) > maxCacheSize
  THEN SubSeq(SortByTimestamp(cacheIndex), 1, (maxCacheSize * 2) \div 10)
  ELSE <<>>

\* toRemove: `cacheIndex.slice(0, Math.floor(this.maxCacheSize * 0.2))` of the
\* sorted index when the index holds maxCacheSize entries or more
Evicted(cacheIndex, maxCacheSize) ==
  IF Len(cacheIndex) >= maxCacheSize
  THEN SubSeq(SortByTimestamp(cacheIndex), 1, (maxCacheSize * 2) \div 10)
  ELSE <<>>

\* the items maintainCacheSize removes after it read `index`: the length of
\* a value that is no array is undefined, and `undefined >= maxCacheSize`
\* is false
ToRemove(index, maxCacheSize) ==
  IF IsArray(index) THEN Evicted(index.items, maxCacheSize) ELSE <<>>

maintainCacheSize(cache, maxCacheSize) ==
  RemoveAll(cache, ToRemove(getCacheIndex(NoFault, cache), maxCacheSize))

\* the index updateCacheIndex writes: the timestamp of the first item of the
\* key refreshed, or a new item pushed
IndexWith(cacheIndex, cacheKey, time) ==
  IF \E i \in DOMAIN cacheIndex : cacheIndex[i].key = cacheKey
  THEN [i \in DOMAIN cacheIndex |->
          IF cacheIndex[i].key = cacheKey
               /\ \A j \in 1..(i - 1) : cacheIndex[j].key # cacheKey
          THEN [key |-> cacheKey, timestamp |-> time]
          ELSE cacheIndex[i]]
  ELSE Append(cacheIndex, [key |-> cacheKey, timestamp |-> time])

\* updateCacheIndex, with no storage failure: when what it reads under the
\* key of the index is no array, `index.findIndex` throws into its catch
\* block and nothing is written
updateCacheIndex(cache, cacheKey, time) ==
  LET index == getCacheIndex(NoFault, cache)
  IN IF IsArray(index)
     THEN setItem(cache, indexKey, CacheIndex(IndexWith(index.items, cacheKey, time)))
     ELSE cache

\* cacheAnalysis run from its call to its return with no other call in
\* between, and no storage failure
cacheAnalysis(cache, imageUri, analysis, cacheDuration, maxCacheSize, time) ==
  LET cacheKey == generateCacheKey(imageUri)
      cacheEntry == CacheEntry(analysis, time, ExpiresAt(cacheDuration, time),
                               generateImageHash(imageUri))
      maintained == maintainCacheSize(cache, maxCacheSize)
  IN updateCacheIndex(setItem(maintained, cacheKey, cacheEntry), cacheKey, time)

\* a variant that lets an entry live for ever
ExpiredNever(cacheEntry, time) == FALSE

\* `cacheEntry.expiresAt && cacheEntry.expiresAt > 0 && Date.now() > cacheEntry.expiresAt`;
\* the array of the index has no expiresAt
Expired(cacheEntry, time) ==
  /\ "expiresAt" \in DOMAIN cacheEntry
  /\ cacheEntry.expiresAt # 0
  /\ cacheEntry.expiresAt > 0
  /\ time > cacheEntry.expiresAt

\* `cacheEntry.data`: undefined when the value read is the array of the index
DataOf(cacheEntry) ==
  IF "data" \in DOMAIN cacheEntry THEN cacheEntry.data ELSE Undefined

\* a variant that refreshes the timestamp of the entry it returns
getCachedAnalysisTouching(cache, imageUri, time) ==
  LET cacheKey == generateCacheKey(imageUri)
      cacheEntry == getItem(cache, cacheKey)
  IN IF cacheEntry = NoEntry
     THEN [hit |-> FALSE, data |-> Undefined, cache |-> cache]
     ELSE IF Expired(cacheEntry, time)
     THEN [hit |-> FALSE, data |-> Undefined,
           cache |-> removeCacheEntry(cache, cacheKey)]
     ELSE [hit |-> DataOf(cacheEntry) # Undefined, data |-> DataOf(cacheEntry),
           cache |-> updateCacheIndex(cache, cacheKey, time + 1)]

\* a variant that never finds an entry
getCachedAnalysisMiss(cache, imageUri, time) ==
  [hit |-> FALSE, data |-> Undefined, cache |-> cache]

\* getCachedAnalysis run from its call to its return with no other call in
\* between, and no storage failure: [hit, data, cache], data being what it
\* returns (null is Undefined), hit that the callers take it for a result
\* (`if (cached)`), and cache the cache after the lazy removal of an expired
\* entry
getCachedAnalysis(cache, imageUri, time) ==
  LET cacheKey == generateCacheKey(imageUri)
      cacheEntry == getItem(cache, cacheKey)
  IN IF cacheEntry = NoEntry
     THEN [hit |-> FALSE, data |-> Undefined, cache |-> cache]
     ELSE IF Expired(cacheEntry, time)
     THEN [hit |-> FALSE, data |-> Undefined,
           cache |-> removeCacheEntry(cache, cacheKey)]
     ELSE [hit |-> DataOf(cacheEntry) # Undefined, data |-> DataOf(cacheEntry),
           cache |-> cache]

(***************************************************************************)
(* QueueManager                                                            *)
(***************************************************************************)
REQUEST_PRIORITY_HIGH == 1
REQUEST_PRIORITY_NORMAL == 5

QueuedRequest(id, imageUri, priority, timestamp) ==
  [id |-> id, imageUri |-> imageUri, priority |-> priority,
   timestamp |-> timestamp, retryCount |-> 0, status |-> "pending"]

\* a variant that ignores the priority
CompareByTimestamp(a, b) == a.timestamp - b.timestamp

\* the comparator of sortQueue: a negative result puts a before b
CompareRequests(a, b) ==
  IF a.priority # b.priority THEN a.priority - b.priority
  ELSE a.timestamp - b.timestamp

\* Array.prototype.sort with that comparator (a stable sort)
RECURSIVE sortQueue(_)
sortQueue(q) ==
  IF q = <<>> THEN <<>>
  ELSE LET sorted == sortQueue(SubSeq(q, 1, Len(q) - 1))
           r == q[Len(q)]
           before == SelectSeq(sorted, LAMBDA x : CompareRequests(x, r) <= 0)
           after == SelectSeq(sorted, LAMBDA x : CompareRequests(x, r) > 0)
       IN before \o <<r>> \o after

\* where that sort puts the k-th object of q; 0 stands for an object that is
\* not in q
SortedPosition(q, k) ==
  IF k = 0 THEN 0
  ELSE Cardinality({j \in DOMAIN q :
                      \/ CompareRequests(q[j], q[k]) < 0
                      \/ CompareRequests(q[j], q[k]) = 0 /\ j <= k})

(***************************************************************************)
(* Documents                                                               *)
(***************************************************************************)
\* {"a":1,"b":[1,2]}
DocAB ==
  <<P("{"), S("a"), P(":"), N(1), P(","), S("b"), P(":"),
    P("["), N(1), P(","), N(2), P("]"), P("}")>>

\* {"a":{"b":1,"c":{"d":2}},"e":3}
DocObjects ==
  <<P("{"), S("a"), P(":"), P("{"), S("b"), P(":"), N(1), P(","),
    S("c"), P(":"), P("{"), S("d"), P(":"), N(2), P("}"), P("}"), P(","),
    S("e"), P(":"), N(3), P("}")>>

\* {"m":[{"n":"x","s":7},{"n":"y","s":8}],"r":[]}
DocMixed ==
  <<P("{"), S("m"), P(":"), P("["),
    P("{"), S("n"), P(":"), S("x"), P(","), S("s"), P(":"), N(7), P("}"), P(","),
    P("{"), S("n"), P(":"), S("y"), P(","), S("s"), P(":"), N(8), P("}"),
    P("]"), P(","), S("r"), P(":"), P("["), P("]"), P("}")>>

\* { "a" : [ 1 , 2 ] , "b" : { "c" : 1 } } with white space between tokens
DocSpaced ==
  <<P("{"), WS, S("a"), WS, P(":"), WS, P("["), WS, N(1), WS, P(","), WS,
    N(2), WS, P("]"), WS, P(","), WS, S("b"), WS, P(":"), WS, P("{"), WS,
    S("c"), WS, P(":"), WS, N(1), WS, P("}"), WS, P("}")>>

Prefixes(doc) == {SubSeq(doc, 1, n) : n \in 1..Len(doc)}

\* the texts handed to the repair pass: every truncation of the documents
RepairInputs ==
  Prefixes(DocAB) \cup Prefixes(DocObjects) \cup Prefixes(DocMixed)
    \cup Prefixes(DocSpaced)

(***************************************************************************)
(* Contents of the model's chat responses                                  *)
(***************************************************************************)
Comma == <<P(",")>>

MetadataTokens ==
  <<S("analysis_metadata"), P(":"), P("{"), S("image_quality"), P(":"),
    S("good"), P(","), S("analysis_confidence"), P(":"), N(90), P("}")>>

MuscleTokens(score) ==
  <<S("muscle_analysis"), P(":"), P("["), P("{"), S("muscle_name"), P(":"),
    S("chest"), P(","), S("development_score"), P(":"), N(score), P("}"),
    P("]")>>

OverallTokens ==
  <<S("overall_assessment"), P(":"), P("{"), S("overall_physique_score"),
    P(":"), N(6), P("}")>>

RecommendationTokens == <<S("recommendations"), P(":"), P("["), P("]")>>

\* prose, then a complete analysis with one muscle scored 7
ValidContent ==
  <<X("Here is the analysis:"), WS, P("{")>> \o MetadataTokens \o Comma
    \o MuscleTokens(7) \o Comma \o OverallTokens \o Comma
    \o RecommendationTokens \o <<P("}")>>

\* an analysis cut inside overall_assessment, after a complete inner object
SalvagedContent ==
  <<P("{")>> \o MetadataTokens \o Comma \o MuscleTokens(8) \o Comma
    \o RecommendationTokens \o Comma
    \o <<S("overall_assessment"), P(":"), P("{"), S("overall_physique_score"),
         P(":"), N(6), P(","), S("detail"), P(":"), P("{"), S("x"), P(":"),
         N(1), P("}"), P(","), X("\"body_symm")>>

\* an analysis cut inside the recommendations array
TruncatedInArrayContent ==
  <<P("{")>> \o MetadataTokens \o Comma \o MuscleTokens(7) \o Comma
    \o OverallTokens \o Comma
    \o <<S("recommendations"), P(":"), P("["), P("{"), S("muscle_target"),
         P(":"), S("chest"), P(",")>>

\* a muscle scored 11
Score11Content ==
  <<P("{")>> \o MetadataTokens \o Comma \o MuscleTokens(11) \o Comma
    \o OverallTokens \o Comma \o RecommendationTokens \o <<P("}")>>

\* no recommendations section
MissingRecommendationsContent ==
  <<P("{")>> \o MetadataTokens \o Comma \o MuscleTokens(7) \o Comma
    \o OverallTokens \o <<P("}")>>

\* <<>> is a response without content
ResponseContents ==
  {ValidContent, SalvagedContent, TruncatedInArrayContent, Score11Content,
   MissingRecommendationsContent, <<>>}

(***************************************************************************)
(* Parsed responses given to validateAnalysisResponse                      *)
(***************************************************************************)
MaxMuscles == 2
Scores == {0, 1, 7, 10, 11}

MuscleEntry(named, score) ==
  IF named
  THEN JObj([muscle_name |-> JStr("chest"), development_score |-> score])
  ELSE JObj([development_score |-> score])

MuscleEntries ==
  {MuscleEntry(named, JNum(sc)) : named \in BOOLEAN, sc \in Scores}
    \cup {MuscleEntry(TRUE, JStr("7"))}

MuscleLists ==
  UNION {[1..n -> MuscleEntries] : n \in 0..MaxMuscles}

MetaGood ==
  JObj([image_quality |-> JStr("good"), analysis_confidence |-> JNum(90)])
MetaNoQuality == JObj([analysis_confidence |-> JNum(90)])
MetaTextConfidence ==
  JObj([image_quality |-> JStr("good"), analysis_confidence |-> JStr("90")])

\* Undefined stands for a section that the response does not have
MetadataChoices == {Undefined, MetaGood, MetaNoQuality, MetaTextConfidence}
MuscleChoices ==
  {Undefined, EmptyObject} \cup {JArr(list) : list \in MuscleLists}
OverallChoices == {Undefined, JObj([overall_physique_score |-> JNum(6)])}
RecommendationChoices == {Undefined, JNull, JArr(<<>>)}

ResponseOf(meta, muscles, overall, recs) ==
  LET section(f) == CASE f = "analysis_metadata" -> meta
                      [] f = "muscle_analysis" -> muscles
                      [] f = "overall_assessment" -> overall
                      [] f = "recommendations" -> recs
      present == {requiredFields[i] : i \in DOMAIN requiredFields}
      keys == {f \in present : section(f).t # "undefined"}
  IN JObj([f \in keys |-> section(f)])

ValidationInputs ==
  {ResponseOf(meta, muscles, overall, recs) :
     meta \in MetadataChoices, muscles \in MuscleChoices,
     overall \in OverallChoices, recs \in RecommendationChoices}


(***************************************************************************)
(* State                                                                   *)
(***************************************************************************)
MaxCalls == 2
MaxRequests == 2
MaxNow == 2
MaxTasks == 3
MaxStarted == 3
MaxTests == 2
MaxFaults == 1
MaxInvocations == 2
MaxHandled == 4

\* the callers of analyzeImage; each runs one call at a time
Calls == 1..MaxCalls
Tasks == 1..MaxTasks
Invocations == 1..MaxInvocations
RequestIds == 1..MaxRequests

\* ".jpg" and ".png"
DotJpg == <<46, 106, 112, 103>>
DotPng == <<46, 112, 110, 103>>

\* "Aa.png", "C.jpg", and "C", which has no extension
ImageUris == {<<65, 97>> \o DotPng, <<67>> \o DotJpg, <<67>>}

VARIABLES
  jsonString,      \* the text given to fixTruncatedJSON
  repaired,        \* [done, cleaned, parsed]: the repaired text and its JSON.parse
  data,            \* the parsed response given to validateAnalysisResponse
  validation,      \* "pending", or the outcome of validateAnalysisResponse
  thrown,          \* the error given to handleError
  classified,      \* [done, error]: the APIError handleError returned for it
  compression,     \* the locals of furtherCompress, its config and its outcome
  apiKey,          \* config.apiKey is set
  enableCache,     \* option of the useAPIAnalysis hook
  enableQueue,     \* option of the useAPIAnalysis hook
  connection,      \* the hook's testConnection: how many calls await the service
  pc,              \* where the analyzeImage call of each caller stands
  uri,             \* the image URI of the call
  retryCount,      \* retryCount of executeWithRetry
  attempts,        \* the number of HTTP requests the call has issued
  lastOutcome,     \* how the latest HTTP request of the call ended
  requestId,       \* the id addToQueue gave the call, 0 if none
  response,        \* the APIResponse of analyzeMuscleImage
  lastReturn,      \* the latest APIResponse any analyzeMuscleImage returned
  onProgress,      \* the latest APIState the call gave to its onProgress
  currentState,    \* APIStateManager.currentState
  published,       \* the states the listeners got in the latest step that notified
  abortController, \* the caller whose attempt created this.abortController, 0 for null
  signalAborted,   \* the signal of the call's request in flight is aborted
  cancelled,       \* cancelCurrentRequest ran during the call's request or delay
  cache,           \* the cache entries and the cache index in AsyncStorage
  queue,           \* QueueManager.queue
  persistedQueue,  \* the queue saved in AsyncStorage
  issued,          \* the number of request ids generated
  isProcessing,    \* QueueManager.isProcessing
  currentRequest,  \* QueueManager.currentRequest
  request,         \* the local `request` of each processQueue call
  requeued,        \* where this.queue holds that very object, 0 if it does not
  qpc,             \* what each processQueue call awaits
  handled,         \* how many times onProcess was called, by request id
  startup,         \* the read of the saved queue that loadQueue awaits
  cacheDuration,   \* CacheManager.cacheDuration
  lastRead,        \* the latest getCachedAnalysis called on the CacheManager
  tasks,           \* the CacheManager calls in progress, by task
  started,         \* how many calls the callers of the CacheManager have made
  storageFault,    \* the AsyncStorage operations that reject at present
  faults,          \* how many times AsyncStorage has started to reject
  now              \* Date.now()

unitVars == <<jsonString, repaired, data, validation, thrown, classified,
             compression>>
hookVars == <<apiKey, enableCache, enableQueue, connection>>
callVars == <<pc, uri, retryCount, attempts, lastOutcome, requestId, response,
             lastReturn, onProgress, currentState, published>>
abortVars == <<abortController, signalAborted, cancelled>>
storeVars == <<cache, queue, persistedQueue, issued>>
processVars == <<isProcessing, currentRequest, request, requeued, qpc, handled,
                startup>>
cacheEnvVars == <<cacheDuration, storageFault, faults, started>>
cacheOpVars == <<cacheEnvVars, lastRead, tasks>>

vars == <<unitVars, hookVars, callVars, abortVars, storeVars, processVars,
          cacheOpVars, now>>

NotRepaired == [done |-> FALSE, cleaned |-> <<>>, parsed |-> ParseFail]

NoAPIError == APIError("", "", FALSE, "")

NotClassified == [done |-> FALSE, error |-> NoAPIError]

\* furtherCompress at the head of its loop: config.quality and
\* config.maxFileSize, the locals quality and currentDimensions, the size of
\* the latest encoding, and how the call ended ("running" while it has not)
Compression(configQuality, maxFileSize, quality, width, height, size, outcome) ==
  [configQuality |-> configQuality, maxFileSize |-> maxFileSize,
   quality |-> quality, width |-> width, height |-> height, size |-> size,
   outcome |-> outcome]

NotCompressing == Compression(0, 0, 0, 0, 0, 0, "none")

\* no testConnection of the hook awaits the service
NotTested == [testing |-> 0]

ClassifyIdle ==
  /\ thrown = PlainError("")
  /\ classified = NotClassified
  /\ compression = NotCompressing

UnitsIdle ==
  /\ jsonString = <<>>
  /\ repaired = NotRepaired
  /\ data = Undefined
  /\ validation = "pending"
  /\ ClassifyIdle

APIResponse(success, result, error, cached) ==
  [success |-> success, data |-> result, error |-> error, cached |-> cached]

NoResponse == APIResponse(FALSE, Undefined, NoAPIError, FALSE)

\* the state APIStateManager starts with and reset() restores; error: null
\* is NoAPIError
InitialState == APIState(FALSE, 0, "", NoAPIError, 0)

\* the image URI and the response of an analyzeMuscleImage that returned
Returned(imageUri, result) == [uri |-> imageUri, response |-> result]

\* how an HTTP request ends: NoOutcome while it has not ended
NoOutcome == PlainError("")
Succeeded == PlainError("2xx")
Canceled == PlainError("canceled")

\* what AsyncStorage holds under queueStorageKey: nothing, or a saved queue
NotStored == [saved |-> FALSE, items |-> <<>>]
Stored(q) == [saved |-> TRUE, items |-> q]

NoRequest == [absent |-> TRUE]

NoRead == [active |-> FALSE, data |-> NotStored]
ReadOf(stored) == [active |-> TRUE, data |-> stored]

\* the getCachedAnalysis called last: its argument, the entry it found in the
\* store (cacheEntry) and what it returned
ReadResult(imageUri, cacheEntry, hit, result) ==
  [uri |-> imageUri, entry |-> cacheEntry, hit |-> hit, data |-> result]

NothingRead == ReadResult(<<>>, NoEntry, FALSE, Undefined)

\* a call of the CacheManager between two awaits: the method (op), the
\* storage operation it awaits (pc), its cacheKey and cacheEntry, the index
\* read by maintainCacheSize (maintainIndex), the keys still to be removed
\* (toRemove), the index held by removeCacheEntry or updateCacheIndex
\* (cacheIndex), what getAllKeys returned (keys), and the argument `analysis`
\* of cacheAnalysis
IdleTask ==
  [op |-> "none", pc |-> "idle", uri |-> <<>>, key |-> <<>>, entry |-> NoEntry,
   maintainIndex |-> <<>>, toRemove |-> <<>>, cacheIndex |-> <<>>, keys |-> {},
   analysis |-> Undefined]

\* cacheAnalysis up to its first await, `await this.generateCacheKey(imageUri)`
CacheAnalysisCall(imageUri, analysis) ==
  [IdleTask EXCEPT !.op = "cacheAnalysis", !.pc = "generateCacheKey",
                   !.uri = imageUri, !.analysis = analysis]

\* cacheAnalysis from there up to `await this.maintainCacheSize()`, which
\* awaits the getItem of getCacheIndex: the entry is built with Date.now()
\* and this.cacheDuration
CacheAnalysisTask(imageUri, analysis, duration, time) ==
  [IdleTask EXCEPT
     !.op = "cacheAnalysis",
     !.pc = "maintainRead",
     !.uri = imageUri,
     !.analysis = analysis,
     !.key = generateCacheKey(imageUri),
     !.entry = CacheEntry(analysis, time, ExpiresAt(duration, time),
                          generateImageHash(imageUri))]

\* getCachedAnalysis up to `await AsyncStorage.getItem(cacheKey)`
GetCachedAnalysisTask(imageUri) ==
  [IdleTask EXCEPT !.op = "getCachedAnalysis", !.pc = "getRead",
                   !.uri = imageUri, !.key = generateCacheKey(imageUri)]

\* invalidateCache up to the removeItem of removeCacheEntry
InvalidateCacheTask(imageUri) ==
  [IdleTask EXCEPT !.op = "invalidateCache", !.pc = "removeItem",
                   !.uri = imageUri, !.key = generateCacheKey(imageUri),
                   !.toRemove = <<generateCacheKey(imageUri)>>]

\* clearCache up to `await AsyncStorage.getAllKeys()`
ClearCacheTask == [IdleTask EXCEPT !.op = "clearCache", !.pc = "getAllKeys"]

QueueIdle ==
  /\ isProcessing = FALSE
  /\ currentRequest = NoRequest
  /\ request = [i \in Invocations |-> NoRequest]
  /\ requeued = [i \in Invocations |-> 0]
  /\ qpc = [i \in Invocations |-> "idle"]
  /\ handled = [id \in RequestIds |-> 0]

\* AsyncStorage holds nothing under the keys of the cache
EmptyCache == [key \in {} |-> NoEntry]

CallsIdle ==
  /\ pc = [c \in Calls |-> "idle"]
  /\ uri = [c \in Calls |-> <<>>]
  /\ retryCount = [c \in Calls |-> 0]
  /\ attempts = [c \in Calls |-> 0]
  /\ lastOutcome = [c \in Calls |-> NoOutcome]
  /\ requestId = [c \in Calls |-> 0]
  /\ response = [c \in Calls |-> NoResponse]
  /\ lastReturn = Returned(<<>>, NoResponse)
  /\ onProgress = [c \in Calls |-> InitialState]
  /\ currentState = InitialState
  /\ published = <<>>
  /\ abortController = 0
  /\ signalAborted = [c \in Calls |-> FALSE]
  /\ cancelled = [c \in Calls |-> FALSE]
  /\ queue = <<>>
  /\ persistedQueue = NotStored
  /\ issued = 0
  /\ QueueIdle
  /\ lastRead = NothingRead
  /\ tasks = [t \in Tasks |-> IdleTask]
  /\ started = 0
  /\ faults = 0
  /\ storageFault = NoFault

ServiceIdle ==
  /\ CallsIdle
  /\ cache = EmptyCache
  /\ cacheDuration = DEFAULT_DURATION
  /\ now = 0

DefaultConfig ==
  /\ apiKey = TRUE
  /\ enableCache = TRUE
  /\ enableQueue = TRUE
  /\ connection = NotTested

(***************************************************************************)
(* The repair pass followed by JSON.parse, applied to a truncated text     *)
(***************************************************************************)
InitRepair ==
  /\ jsonString \in RepairInputs
  /\ repaired = NotRepaired
  /\ data = Undefined
  /\ validation = "pending"
  /\ ClassifyIdle
  /\ DefaultConfig
  /\ ServiceIdle
  /\ startup = NoRead

Repair ==
  /\ ~repaired.done
  /\ repaired' = [done |-> TRUE,
                  cleaned |-> fixTruncatedJSON(jsonString),
                  parsed |-> JSONParse(fixTruncatedJSON(jsonString))]
  /\ UNCHANGED <<jsonString, data, validation, thrown, classified, compression>>
  /\ UNCHANGED <<hookVars, callVars, abortVars, storeVars, processVars,
                 cacheOpVars, now>>

NextRepair == Repair

SpecRepair == InitRepair /\ [][NextRepair]_vars

(***************************************************************************)
(* validateAnalysisResponse applied to a parsed response                   *)
(***************************************************************************)
InitValidate ==
  /\ jsonString = <<>>
  /\ repaired = NotRepaired
  /\ data \in ValidationInputs
  /\ validation = "pending"
  /\ ClassifyIdle
  /\ DefaultConfig
  /\ ServiceIdle
  /\ startup = NoRead

Validate ==
  /\ validation = "pending"
  /\ validation' = validateAnalysisResponse(data)
  /\ UNCHANGED <<jsonString, repaired, data, thrown, classified, compression>>
  /\ UNCHANGED <<hookVars, callVars, abortVars, storeVars, processVars,
                 cacheOpVars, now>>

NextValidate == Validate

SpecValidate == InitValidate /\ [][NextValidate]_vars

(***************************************************************************)
(* handleError applied to an error thrown by the request                   *)
(***************************************************************************)
MinStatus == 300
MaxStatus == 599

\* the statuses axios rejects with (validateStatus accepts 2xx only)
ThrownStatuses == MinStatus..MaxStatus

ThrownMessages ==
  {"", "Invalid response format", "Invalid muscle analysis entry",
   "Network request failed"}

ThrownErrors ==
  {AxiosNoResponse} \cup {AxiosStatus(status) : status \in ThrownStatuses}
    \cup {PlainError(message) : message \in ThrownMessages}

InitClassify ==
  /\ jsonString = <<>>
  /\ repaired = NotRepaired
  /\ data = Undefined
  /\ validation = "pending"
  /\ thrown \in ThrownErrors
  /\ classified = NotClassified
  /\ compression = NotCompressing
  /\ DefaultConfig
  /\ ServiceIdle
  /\ startup = NoRead

Classify ==
  /\ ~classified.done
  /\ classified' = [done |-> TRUE, error |-> handleError(thrown)]
  /\ UNCHANGED <<jsonString, repaired, data, validation, thrown, compression>>
  /\ UNCHANGED <<hookVars, callVars, abortVars, storeVars, processVars,
                 cacheOpVars, now>>

NextClassify == Classify

SpecClassify == InitClassify /\ [][NextClassify]_vars

(***************************************************************************)
(* furtherCompress on an image whose first encoding was too large          *)
(***************************************************************************)
\* processImage is called without options (analyzeMuscleImage and the queue
\* handler pass the URI alone), so config is DEFAULT_OPTIONS: config.quality
\* is COMPRESSION_QUALITY and config.maxFileSize is MAX_FILE_SIZE

\* the dimensions calculateOptimalDimensions gives
CompressDimensions == {<<MAX_WIDTH, MAX_WIDTH>>, <<MAX_WIDTH, 576>>, <<640, 480>>}

\* what getBase64Size gives for an encoding is decided by the image library,
\* whose code is not part of the repository: the size is an input of every
\* attempt, one that fits or one that does not
EncodedSizes(maxFileSize) == {maxFileSize, maxFileSize + 1}

\* processImage calls furtherCompress when the first encoding exceeds
\* config.maxFileSize
InitCompress ==
  /\ jsonString = <<>>
  /\ repaired = NotRepaired
  /\ data = Undefined
  /\ validation = "pending"
  /\ thrown = PlainError("")
  /\ classified = NotClassified
  /\ \E dimensions \in CompressDimensions :
       compression = Compression(COMPRESSION_QUALITY, MAX_FILE_SIZE,
                                 COMPRESSION_QUALITY,
                                 dimensions[1], dimensions[2],
                                 MAX_FILE_SIZE + 1, "running")
  /\ DefaultConfig
  /\ ServiceIdle
  /\ startup = NoRead

CompressUnchanged ==
  /\ UNCHANGED <<jsonString, repaired, data, validation, thrown, classified>>
  /\ UNCHANGED <<hookVars, callVars, abortVars, storeVars, processVars,
                 cacheOpVars, now>>

\* one iteration of the loop: the quality is lowered, the image is resized
\* and encoded, and either the encoding fits and is returned, or the loop
\* goes on, with smaller dimensions and the quality reset when the quality
\* is 0.4 or less
CompressAttempt(size) ==
  /\ compression.outcome = "running"
  /\ TriesAgain(compression.quality)
  /\ LET quality == MinusTenth(compression.quality)
     IN compression' =
          IF size <= compression.maxFileSize
          THEN [compression EXCEPT !.quality = quality, !.size = size,
                                   !.outcome = "returned"]
          ELSE IF ReducesDimensions(quality)
          THEN [compression EXCEPT
                  !.quality = ResetQuality(compression.configQuality, quality),
                  !.size = size,
                  !.width = Shrunk(compression.width),
                  !.height = Shrunk(compression.height)]
          ELSE [compression EXCEPT !.quality = quality, !.size = size]
  /\ CompressUnchanged

\* an iteration in which manipulateAsync or readAsStringAsync rejects:
\* nothing in furtherCompress catches what resizeAndCompress or
\* convertToBase64 throws
CompressRejected ==
  /\ compression.outcome = "running"
  /\ TriesAgain(compression.quality)
  /\ compression' = [compression EXCEPT
                       !.quality = MinusTenth(compression.quality),
                       !.outcome = "rejected"]
  /\ CompressUnchanged

\* the loop ends without an encoding that fits: the throw after it
CompressGivesUp ==
  /\ compression.outcome = "running"
  /\ ~TriesAgain(compression.quality)
  /\ compression' = [compression EXCEPT !.outcome = "unable"]
  /\ CompressUnchanged

NextCompress ==
  \/ \E size \in EncodedSizes(compression.maxFileSize) : CompressAttempt(size)
  \/ CompressRejected
  \/ CompressGivesUp

SpecCompress == InitCompress /\ [][NextCompress]_vars

(***************************************************************************)
(* useAPIAnalysis.analyzeImage and FireworksAIService.analyzeMuscleImage   *)
(*                                                                         *)
(* A caller runs analyzeImage again and again.  A call moves at the points *)
(* where the code awaits: pc names what the call is waiting for.           *)
(*   returned   analyzeMuscleImage, which has returned without awaiting    *)
(*              anything (the continuation of analyzeImage is a microtask) *)
(*   hookCache  the hook's getCachedAnalysis                               *)
(*   hookQueue  addToQueue (the save of the queue)                         *)
(*   svcCache   the service's getCachedAnalysis                            *)
(*   image      ImageProcessor.processImage                                *)
(*   inflight   the HTTP request of executeWithRetry                       *)
(*   backoff    the delay before the next attempt                          *)
(*   caching    cacheAnalysis                                              *)
(*   done       analyzeImage has resolved                                  *)
(***************************************************************************)
\* a variant in which the error leaves analyzeMuscleImage unconverted
FailureRethrown(error) == NoResponse
Failure(error) == APIResponse(FALSE, Undefined, handleError(error), FALSE)

MissingApiKey ==
  APIResponse(FALSE, Undefined,
    APIError("AUTH_ERROR", "Missing API key", FALSE,
      "Missing API key. Please check your environment configuration."),
    FALSE)

\* addToQueue: the queue after the push and the sort
\* saveQueue: what AsyncStorage holds afterwards; a rejected setItem is caught
saveQueue(fault, stored, q) == IF "setItem" \in fault THEN stored ELSE Stored(q)

addToQueue(q, id, imageUri, priority, time) ==
  sortQueue(Append(q, QueuedRequest(id, imageUri, priority, time)))

\* a variant in which a failure of the cache write reaches the caller
AfterCachingRethrown(fault, result) ==
  IF fault = NoFault THEN result
  ELSE Failure(PlainError("Failed to cache analysis"))

\* what analyzeMuscleImage returns after `await cacheManager.cacheAnalysis`:
\* cacheAnalysis catches every failure, so the result of the analysis
AfterCaching(fault, result) == result

\* the condition of the while loop of executeWithRetry
LoopContinues(count) == count <= maxRetries

\* `!isRetryable || retryCount >= maxRetries`: the error is thrown on
GivesUpAfterLoop(error, count) == ~isRetryableError(error) \/ count > maxRetries
GivesUp(error, count) == ~isRetryableError(error) \/ count >= maxRetries

\* notifyListeners after each of the updates
Notify(updates) ==
  IF Len(updates) = 0 THEN UNCHANGED <<currentState, published>>
  ELSE /\ published' = Notified(currentState, updates)
       /\ currentState' = published'[Len(published')]

\* analyzeImage after analyzeMuscleImage has returned result
HookAfter(result) ==
  IF result.success /\ result.data # Undefined
  THEN <<updateProgress(currentState, 100, "Analysis complete"),
         setLoading(FALSE, "")>>
  ELSE IF result.error # NoAPIError
  THEN <<setError(result.error), setLoading(FALSE, "")>>
  ELSE <<setLoading(FALSE, "")>>

\* the updates of a step of call c: `updates`, then those of analyzeImage
\* when analyzeMuscleImage returns in this step
Published(c, updates) ==
  Notify(IF pc'[c] = "done" THEN updates \o HookAfter(response'[c]) ELSE updates)

\* the service gives state to the onProgress of call c, which the hook
\* passes to updateState
Deliver(c, state) ==
  /\ onProgress' = [onProgress EXCEPT ![c] = state]
  /\ Notify(<<state>>)

\* `throw new Error(`Failed to process image: ${error.message}`)`
processImageError(message) == PlainError("Failed to process image: " \o message)

\* analyzeMuscleImage returns result
Return(c, result) ==
  /\ pc' = [pc EXCEPT ![c] = "done"]
  /\ response' = [response EXCEPT ![c] = result]
  /\ lastReturn' = Returned(uri'[c], result)

\* analyzeMuscleImage throws error: the catch block turns it into a response
Throw(c, error) == Return(c, Failure(error))

\* no continuation is waiting in the microtask queue: the callbacks of
\* AsyncStorage, of the HTTP client and of the timers run only then
MicrotasksDone ==
  /\ \A c \in Calls : pc[c] # "returned"
  /\ \A t \in Tasks : tasks[t].pc # "generateCacheKey"

\* analyzeMuscleImage up to its first await: the API key check
EnterService(c) ==
  IF apiKey
  THEN /\ pc' = [pc EXCEPT ![c] = "svcCache"]
       /\ UNCHANGED <<response, lastReturn>>
  ELSE Return(c, MissingApiKey)

\* the hook calls addToQueue: the push, the sort and the save
Enqueue(c, imageUri) ==
  /\ queue' = addToQueue(queue, issued + 1, imageUri, REQUEST_PRIORITY_NORMAL, now)
  /\ persistedQueue' = saveQueue(storageFault, persistedQueue, queue')
  /\ issued' = issued + 1
  /\ requestId' = [requestId EXCEPT ![c] = issued + 1]
  /\ pc' = [pc EXCEPT ![c] = "hookQueue"]

\* the hook after its cache check: addToQueue if the queue is enabled
EnqueueOrEnterService(c) ==
  IF enableQueue
  THEN /\ Enqueue(c, uri[c])
       /\ UNCHANGED <<response, lastReturn>>
  ELSE /\ EnterService(c)
       /\ UNCHANGED <<queue, persistedQueue, issued, requestId>>

\* one attempt of the loop: a new AbortController and the POST
StartAttempt(c) ==
  /\ pc' = [pc EXCEPT ![c] = "inflight"]
  /\ attempts' = [attempts EXCEPT ![c] = @ + 1]
  /\ lastOutcome' = [lastOutcome EXCEPT ![c] = NoOutcome]
  /\ abortController' = c
  /\ signalAborted' = [signalAborted EXCEPT ![c] = FALSE]

\* the calls of the CacheManager that analyzeImage and analyzeMuscleImage
\* await
CachePcs == {"hookCache", "svcCache", "caching"}

\* the call of the CacheManager that call c makes in this step, if it makes
\* one: the call runs as task c
CacheCall(c) ==
  tasks' = [tasks EXCEPT ![c] =
              CASE pc'[c] \in {"hookCache", "svcCache"} ->
                     GetCachedAnalysisTask(uri'[c])
                [] pc'[c] = "caching" ->
                     CacheAnalysisCall(uri'[c], response'[c].data)
                [] OTHER -> IdleTask]

\* analyzeImage up to its first await; `before` are the updates of the state
\* that precede it.  Without cache, queue and API key that await is the one
\* of analyzeMuscleImage, which has returned its response by then.
StartAnalysis(c, imageUri, before) ==
  /\ pc[c] \in {"idle", "done"}
  /\ enableQueue => issued < MaxRequests
  /\ uri' = [uri EXCEPT ![c] = imageUri]
  /\ retryCount' = [retryCount EXCEPT ![c] = 0]
  /\ attempts' = [attempts EXCEPT ![c] = 0]
  /\ lastOutcome' = [lastOutcome EXCEPT ![c] = NoOutcome]
  /\ cancelled' = [cancelled EXCEPT ![c] = FALSE]
  /\ IF enableCache \/ enableQueue \/ apiKey
     THEN /\ response' = [response EXCEPT ![c] = NoResponse]
          /\ UNCHANGED lastReturn
          /\ IF enableCache
             THEN /\ pc' = [pc EXCEPT ![c] = "hookCache"]
                  /\ requestId' = [requestId EXCEPT ![c] = 0]
                  /\ UNCHANGED <<queue, persistedQueue, issued>>
             ELSE IF enableQueue
             THEN Enqueue(c, imageUri)
             ELSE /\ pc' = [pc EXCEPT ![c] = "svcCache"]
                  /\ requestId' = [requestId EXCEPT ![c] = 0]
                  /\ UNCHANGED <<queue, persistedQueue, issued>>
     ELSE /\ pc' = [pc EXCEPT ![c] = "returned"]
          /\ response' = [response EXCEPT ![c] = MissingApiKey]
          /\ lastReturn' = Returned(imageUri, MissingApiKey)
          /\ requestId' = [requestId EXCEPT ![c] = 0]
          /\ UNCHANGED <<queue, persistedQueue, issued>>
  /\ onProgress' = [onProgress EXCEPT ![c] = InitialState]
  /\ Published(c, before \o <<InitialState, setLoading(TRUE, "Starting analysis...")>>)
  /\ CacheCall(c)
  /\ UNCHANGED <<unitVars, cacheEnvVars, lastRead, processVars, hookVars,
                 abortController, signalAborted, cache, now>>

AnalyzeImage(c, imageUri) == StartAnalysis(c, imageUri, <<>>)

\* the hook's retry: incrementRetry, then analyzeImage
Retry(c, imageUri) == StartAnalysis(c, imageUri, <<incrementRetry(currentState)>>)

\* analyzeImage goes on after `await apiService.analyzeMuscleImage(...)`,
\* which had returned when it was called
ServiceReturned(c) ==
  /\ pc[c] = "returned"
  /\ pc' = [pc EXCEPT ![c] = "done"]
  /\ UNCHANGED <<uri, retryCount, attempts, lastOutcome, requestId, response,
                 lastReturn, onProgress>>
  /\ Published(c, <<>>)
  /\ UNCHANGED <<unitVars, cacheOpVars, processVars, hookVars, abortVars, storeVars,
                 now>>

\* the hook's getCachedAnalysis has returned `cached` (hit: it is truthy)
HookCacheResult(c, hit, cached) ==
  /\ pc[c] = "hookCache"
  /\ uri' = uri
  /\ IF hit
     THEN /\ pc' = [pc EXCEPT ![c] = "done"]
          /\ UNCHANGED <<queue, persistedQueue, issued, requestId, response,
                         lastReturn>>
          /\ Notify(<<updateProgress(currentState, 100, "Loaded from cache"),
                      setLoading(FALSE, "")>>)
     ELSE /\ EnqueueOrEnterService(c)
          /\ Published(c, <<>>)
  /\ UNCHANGED onProgress
  /\ CacheCall(c)
  /\ UNCHANGED <<unitVars, cacheEnvVars, processVars, hookVars, retryCount, attempts,
                 lastOutcome, abortVars, now>>

\* addToQueue resolves and the hook calls analyzeMuscleImage
HookQueued(c) ==
  /\ pc[c] = "hookQueue"
  /\ MicrotasksDone
  /\ uri' = uri
  /\ EnterService(c)
  /\ UNCHANGED onProgress
  /\ Published(c, <<updateProgress(currentState, 5,
                      "Request queued (ID: " \o ToString(requestId[c]) \o ")")>>)
  /\ CacheCall(c)
  /\ UNCHANGED <<unitVars, cacheEnvVars, lastRead, processVars, hookVars, retryCount,
                 attempts, lastOutcome, requestId, abortVars, storeVars, now>>

\* the service's getCachedAnalysis has returned `cached` (hit: it is truthy).
\* On a miss processImage is called: validateImageFormat throws before it
\* awaits anything, or awaits FileSystem.getInfoAsync
ServiceCacheResult(c, hit, cached) ==
  /\ pc[c] = "svcCache"
  /\ uri' = uri
  /\ IF hit
     THEN /\ Return(c, APIResponse(TRUE, cached, NoAPIError, TRUE))
          /\ UNCHANGED onProgress
          /\ Published(c, <<>>)
     ELSE LET preparing == APIState(TRUE, 10, "Preparing image for analysis...",
                                    NoAPIError, 0)
          IN IF SupportedFormat(uri[c])
             THEN /\ pc' = [pc EXCEPT ![c] = "image"]
                  /\ UNCHANGED <<response, lastReturn>>
                  /\ Deliver(c, preparing)
             ELSE /\ Throw(c, processImageError(UnsupportedFormat))
                  /\ onProgress' = [onProgress EXCEPT ![c] = preparing]
                  /\ Published(c, <<preparing>>)
  /\ CacheCall(c)
  /\ UNCHANGED <<unitVars, cacheEnvVars, processVars, hookVars, retryCount, attempts,
                 lastOutcome, requestId, abortVars, queue, persistedQueue,
                 issued, now>>

\* processImage resolves and executeWithRetry starts its first attempt
ImageProcessed(c) ==
  /\ pc[c] = "image"
  /\ SupportedFormat(uri[c])
  /\ MicrotasksDone
  /\ StartAttempt(c)
  /\ Deliver(c, APIState(TRUE, 30, "Sending to AI for analysis...", NoAPIError, 0))
  /\ CacheCall(c)
  /\ UNCHANGED <<unitVars, cacheEnvVars, lastRead, processVars, hookVars, uri,
                 retryCount, requestId, response, lastReturn, cancelled,
                 storeVars, now>>

\* processImage rejects after it has awaited the file system: its catch block
\* wraps the message of the error
ImageFailed(c, message) ==
  /\ pc[c] = "image"
  /\ MicrotasksDone
  /\ uri' = uri
  /\ Throw(c, processImageError(message))
  /\ UNCHANGED onProgress
  /\ Published(c, <<>>)
  /\ CacheCall(c)
  /\ UNCHANGED <<unitVars, cacheEnvVars, lastRead, processVars, hookVars, retryCount,
                 attempts, lastOutcome, requestId, abortVars, storeVars, now>>

\* the request resolves with a 2xx response; parseResponse follows at once,
\* and the call of cacheAnalysis
HttpSucceeds(c, content) ==
  /\ pc[c] = "inflight"
  /\ MicrotasksDone
  /\ ~signalAborted[c]
  /\ uri' = uri
  /\ lastOutcome' = [lastOutcome EXCEPT ![c] = Succeeded]
  /\ LET parsed == parseResponse(content)
     IN IF parsed.ok
        THEN /\ pc' = [pc EXCEPT ![c] = "caching"]
             /\ response' = [response EXCEPT ![c] =
                               APIResponse(TRUE, parsed.data, NoAPIError, FALSE)]
             /\ UNCHANGED lastReturn
        ELSE Throw(c, PlainError(parsed.message))
  /\ UNCHANGED onProgress
  /\ Published(c, <<>>)
  /\ CacheCall(c)
  /\ UNCHANGED <<unitVars, cacheEnvVars, lastRead, processVars, hookVars, retryCount,
                 attempts, requestId, abortVars, storeVars, now>>

\* the request rejects with an AxiosError
HttpFails(c, error) ==
  /\ pc[c] = "inflight"
  /\ MicrotasksDone
  /\ ~signalAborted[c]
  /\ uri' = uri
  /\ lastOutcome' = [lastOutcome EXCEPT ![c] = error]
  /\ IF GivesUp(error, retryCount[c])
     THEN /\ Throw(c, error)
          /\ UNCHANGED <<retryCount, onProgress>>
          /\ Published(c, <<>>)
     ELSE /\ retryCount' = [retryCount EXCEPT ![c] = @ + 1]
          /\ pc' = [pc EXCEPT ![c] = "backoff"]
          /\ UNCHANGED <<response, lastReturn>>
          /\ Deliver(c, APIState(TRUE, 30 + retryCount'[c] * 10,
                                 "Retrying analysis (attempt "
                                   \o ToString(retryCount'[c] + 1) \o "/"
                                   \o ToString(maxRetries + 1) \o ")...",
                                 NoAPIError, retryCount'[c]))
  /\ CacheCall(c)
  /\ UNCHANGED <<unitVars, cacheEnvVars, lastRead, processVars, hookVars, attempts,
                 requestId, abortVars, storeVars, now>>

\* the request rejects because its signal was aborted (axios.isCancel)
HttpCancelled(c) ==
  /\ pc[c] = "inflight"
  /\ MicrotasksDone
  /\ signalAborted[c]
  /\ uri' = uri
  /\ lastOutcome' = [lastOutcome EXCEPT ![c] = Canceled]
  /\ Throw(c, PlainError("Request cancelled by user"))
  /\ UNCHANGED onProgress
  /\ Published(c, <<>>)
  /\ CacheCall(c)
  /\ UNCHANGED <<unitVars, cacheEnvVars, lastRead, processVars, hookVars, retryCount,
                 attempts, requestId, abortVars, storeVars, now>>

\* the delay before the next attempt is over
DelayElapsed(c) ==
  /\ pc[c] = "backoff"
  /\ MicrotasksDone
  /\ uri' = uri
  /\ IF LoopContinues(retryCount[c])
     THEN /\ StartAttempt(c)
          /\ UNCHANGED <<response, lastReturn>>
     ELSE /\ Throw(c, PlainError("Max retries exceeded"))
          /\ UNCHANGED <<attempts, lastOutcome, abortController, signalAborted>>
  /\ UNCHANGED onProgress
  /\ Published(c, <<>>)
  /\ CacheCall(c)
  /\ UNCHANGED <<unitVars, cacheEnvVars, lastRead, processVars, hookVars, retryCount,
                 requestId, cancelled, storeVars, now>>

\* cacheAnalysis has returned and analyzeMuscleImage returns the fresh result
CacheWritten(c) ==
  /\ pc[c] = "caching"
  /\ uri' = uri
  /\ Return(c, AfterCaching(storageFault, response[c]))
  /\ UNCHANGED onProgress
  /\ Published(c, <<>>)
  /\ CacheCall(c)
  /\ UNCHANGED <<unitVars, cacheEnvVars, processVars, hookVars, retryCount, attempts,
                 lastOutcome, requestId, abortVars, queue, persistedQueue,
                 issued, now>>

\* the hook's cancel, which can be called at any time: cancelCurrentRequest,
\* then stateManager.reset(); aborting a controller whose request has ended
\* has no effect on any request
CancelCurrentRequest ==
  /\ cancelled' = [c \in Calls |-> cancelled[c] \/ pc[c] \in {"inflight", "backoff"}]
  /\ IF abortController # 0
     THEN /\ signalAborted' =
               [signalAborted EXCEPT ![abortController] =
                  @ \/ pc[abortController] = "inflight"]
          /\ abortController' = 0
     ELSE UNCHANGED <<abortController, signalAborted>>
  /\ Notify(<<InitialState>>)
  /\ UNCHANGED <<unitVars, cacheOpVars, processVars, hookVars, storeVars, now>>
  /\ UNCHANGED <<pc, uri, retryCount, attempts, lastOutcome, requestId, response,
                 lastReturn, onProgress>>

\* onUploadProgress: the rounded percentage of the request body that was
\* sent, which does not fall during one request
UploadProgress(c, percent) ==
  /\ pc[c] = "inflight"
  /\ MicrotasksDone
  /\ onProgress[c].statusMessage = "Uploading..." => percent >= onProgress[c].progress
  /\ Deliver(c, APIState(TRUE, percent, "Uploading...", NoAPIError, 0))
  /\ UNCHANGED <<unitVars, cacheOpVars, processVars, hookVars, abortVars, storeVars,
                 now>>
  /\ UNCHANGED <<pc, uri, retryCount, attempts, lastOutcome, requestId, response,
                 lastReturn>>

\* the hook's testConnection up to `await apiService.testConnection()`;
\* nothing keeps a call from starting while another awaits the service
TestConnection ==
  /\ connection.testing < MaxTests
  /\ connection' = [connection EXCEPT !.testing = @ + 1]
  /\ Notify(<<setLoading(TRUE, "Testing connection...")>>)
  /\ UNCHANGED <<unitVars, cacheOpVars, processVars, apiKey, enableCache,
                 enableQueue, abortVars, storeVars, now>>
  /\ UNCHANGED <<pc, uri, retryCount, attempts, lastOutcome, requestId, response,
                 lastReturn, onProgress>>

\* the POST of the service's testConnection resolves or rejects, the service
\* returns true or false, and the hook calls setLoading(false) and returns
\* what the service returned to its own caller; neither keeps the value
ConnectionTested(isConnected) ==
  /\ connection.testing > 0
  /\ MicrotasksDone
  /\ connection' = [connection EXCEPT !.testing = @ - 1]
  /\ Notify(<<setLoading(FALSE, "")>>)
  /\ UNCHANGED <<unitVars, cacheOpVars, processVars, apiKey, enableCache,
                 enableQueue, abortVars, storeVars, now>>
  /\ UNCHANGED <<pc, uri, retryCount, attempts, lastOutcome, requestId, response,
                 lastReturn, onProgress>>

(***************************************************************************)
(* The calls of the CacheManager, one AsyncStorage access at a time: a     *)
(* call runs up to its next await in one step, the storage is read or      *)
(* written when the access resolves, and the calls of different tasks      *)
(* interleave at the awaits.  When the call returns, the analyzeImage or   *)
(* analyzeMuscleImage that awaited it goes on in the same step.            *)
(***************************************************************************)
\* the storage access that the call awaits resolves or rejects
Awaits(t, op, awaited) ==
  /\ tasks[t].op = op
  /\ tasks[t].pc = awaited
  /\ MicrotasksDone

Callable(t) == tasks[t].pc = "idle"

KeySeq(cacheIndex) == [i \in DOMAIN cacheIndex |-> cacheIndex[i].key]

TaskUnchanged ==
  UNCHANGED <<unitVars, hookVars, callVars, abortVars, queue,
              persistedQueue, issued, processVars, cacheEnvVars, now>>

\* the call goes on to its next await
GoesOn(t, task) ==
  /\ tasks' = [tasks EXCEPT ![t] = task]
  /\ TaskUnchanged

\* the call returns `cached` (hit: it is truthy) to its caller
Returns(t, hit, cached) ==
  IF t \in Calls /\ pc[t] \in CachePcs
  THEN CASE pc[t] = "hookCache" -> HookCacheResult(t, hit, cached)
         [] pc[t] = "svcCache" -> ServiceCacheResult(t, hit, cached)
         [] OTHER -> CacheWritten(t)
  ELSE GoesOn(t, IdleTask)

\* a caller of the CacheManager other than analyzeImage makes a call, which
\* runs as task t up to its first await
Starts(t, task) ==
  /\ Callable(t)
  /\ started < MaxStarted
  /\ started' = started + 1
  /\ tasks' = [tasks EXCEPT ![t] = task]
  /\ UNCHANGED <<unitVars, hookVars, callVars, abortVars, storeVars, processVars,
                 cacheDuration, storageFault, faults, lastRead, now>>

StartCacheAnalysis(t, imageUri, analysis) ==
  Starts(t, CacheAnalysisCall(imageUri, analysis))

\* cacheAnalysis goes on after its awaits of generateCacheKey and
\* generateImageHash, which await nothing: it builds the entry and calls
\* maintainCacheSize
KeyGenerated(t) ==
  /\ tasks[t].op = "cacheAnalysis"
  /\ tasks[t].pc = "generateCacheKey"
  /\ GoesOn(t, CacheAnalysisTask(tasks[t].uri, tasks[t].analysis, cacheDuration, now))
  /\ UNCHANGED <<cache, lastRead>>

StartGetCachedAnalysis(t, imageUri) == Starts(t, GetCachedAnalysisTask(imageUri))

StartInvalidateCache(t, imageUri) == Starts(t, InvalidateCacheTask(imageUri))

StartClearCache(t) == Starts(t, ClearCacheTask)

\* maintainCacheSize has read the index: it sorts it and removes the first
\* entries of it, or returns
MaintainRead(t) ==
  /\ Awaits(t, "cacheAnalysis", "maintainRead")
  /\ LET index == getCacheIndex(storageFault, cache)
         toRemove == ToRemove(index, MAX_CACHE_SIZE)
     IN GoesOn(t, [tasks[t] EXCEPT
                     !.maintainIndex = IF IsArray(index) THEN index.items ELSE <<>>,
                     !.toRemove = KeySeq(toRemove),
                     !.pc = IF toRemove = <<>> THEN "writeEntry" ELSE "removeItem"])
  /\ UNCHANGED <<cache, lastRead>>

\* removeCacheEntry has returned: the caller goes on with the next entry to
\* remove, with the write of the entry, or returns (null, from
\* getCachedAnalysis)
Removed(t) ==
  IF Tail(tasks[t].toRemove) # <<>>
  THEN GoesOn(t, [tasks[t] EXCEPT !.toRemove = Tail(tasks[t].toRemove),
                                  !.pc = "removeItem"])
  ELSE IF tasks[t].op = "cacheAnalysis"
  THEN GoesOn(t, [tasks[t] EXCEPT !.toRemove = <<>>, !.pc = "writeEntry"])
  ELSE Returns(t, FALSE, Undefined)

\* removeCacheEntry: `await AsyncStorage.removeItem(cacheKey)`; when the
\* removal rejects, the catch block of removeCacheEntry ends it with the
\* index as it is
RemoveItem(t) ==
  /\ tasks[t].pc = "removeItem"
  /\ MicrotasksDone
  /\ IF "removeItem" \in storageFault
     THEN /\ UNCHANGED cache
          /\ Removed(t)
     ELSE /\ cache' = removeItem(cache, Head(tasks[t].toRemove))
          /\ GoesOn(t, [tasks[t] EXCEPT !.pc = "removeRead"])
  /\ UNCHANGED lastRead

\* removeCacheEntry: `await this.getCacheIndex()` and the filter, which
\* throws into the catch block when what was read is no array
RemoveRead(t) ==
  /\ tasks[t].pc = "removeRead"
  /\ MicrotasksDone
  /\ LET index == getCacheIndex(storageFault, cache)
     IN IF IsArray(index)
        THEN GoesOn(t, [tasks[t] EXCEPT
                          !.cacheIndex = IndexWithout(index.items, Head(tasks[t].toRemove)),
                          !.pc = "removeWrite"])
        ELSE Removed(t)
  /\ UNCHANGED <<cache, lastRead>>

\* removeCacheEntry: the filtered index is written, unless the write rejects
RemoveWrite(t) ==
  /\ tasks[t].pc = "removeWrite"
  /\ MicrotasksDone
  /\ cache' = IF "setItem" \in storageFault THEN cache
              ELSE setItem(cache, indexKey, CacheIndex(tasks[t].cacheIndex))
  /\ Removed(t)
  /\ UNCHANGED lastRead

\* cacheAnalysis: `await AsyncStorage.setItem(cacheKey, ...)`; when the write
\* rejects, the catch block of cacheAnalysis ends the call
WriteEntry(t) ==
  /\ Awaits(t, "cacheAnalysis", "writeEntry")
  /\ IF "setItem" \in storageFault
     THEN /\ UNCHANGED cache
          /\ Returns(t, FALSE, Undefined)
     ELSE /\ cache' = setItem(cache, tasks[t].key, tasks[t].entry)
          /\ GoesOn(t, [tasks[t] EXCEPT !.pc = "indexRead"])
  /\ UNCHANGED lastRead

\* updateCacheIndex: `await this.getCacheIndex()` and the update of the copy;
\* `index.findIndex` throws into the catch block when what was read is no
\* array, and cacheAnalysis returns
IndexRead(t) ==
  /\ Awaits(t, "cacheAnalysis", "indexRead")
  /\ LET index == getCacheIndex(storageFault, cache)
     IN IF IsArray(index)
        THEN GoesOn(t, [tasks[t] EXCEPT
                          !.cacheIndex = IndexWith(index.items, tasks[t].key, now),
                          !.pc = "indexWrite"])
        ELSE Returns(t, FALSE, Undefined)
  /\ UNCHANGED <<cache, lastRead>>

\* updateCacheIndex: the index is written, unless the write rejects, and
\* cacheAnalysis returns
IndexWrite(t) ==
  /\ Awaits(t, "cacheAnalysis", "indexWrite")
  /\ cache' = IF "setItem" \in storageFault THEN cache
              ELSE setItem(cache, indexKey, CacheIndex(tasks[t].cacheIndex))
  /\ Returns(t, FALSE, Undefined)
  /\ UNCHANGED lastRead

\* the getItem of getCachedAnalysis has resolved or rejected: the call
\* returns, or removes the entry that has expired
GetRead(t) ==
  /\ Awaits(t, "getCachedAnalysis", "getRead")
  /\ LET cacheEntry == getItem(cache, tasks[t].key)
         cached == getCachedAnalysis(cache, tasks[t].uri, now)
     IN IF "getItem" \in storageFault
        THEN /\ lastRead' = ReadResult(tasks[t].uri, NoEntry, FALSE, Undefined)
             /\ UNCHANGED cache
             /\ Returns(t, FALSE, Undefined)
        ELSE IF cacheEntry # NoEntry /\ Expired(cacheEntry, now)
        THEN /\ lastRead' = ReadResult(tasks[t].uri, cacheEntry, FALSE, Undefined)
             /\ UNCHANGED cache
             /\ GoesOn(t, [tasks[t] EXCEPT !.toRemove = <<tasks[t].key>>,
                                           !.pc = "removeItem"])
        ELSE /\ lastRead' = ReadResult(tasks[t].uri, cacheEntry, cached.hit,
                                       cached.data)
             /\ cache' = cached.cache
             /\ Returns(t, cached.hit, cached.data)

\* getAllKeys has returned the keys that hold a value, the key of the index
\* among them
GetAllKeys(t) ==
  /\ Awaits(t, "clearCache", "getAllKeys")
  /\ GoesOn(t, [tasks[t] EXCEPT !.keys = getAllKeys(cache), !.pc = "multiRemove"])
  /\ UNCHANGED <<cache, lastRead>>

\* clearCache: `await AsyncStorage.multiRemove(cacheKeys)`
MultiRemove(t) ==
  /\ Awaits(t, "clearCache", "multiRemove")
  /\ cache' = multiRemove(cache, tasks[t].keys)
  /\ GoesOn(t, IdleTask)
  /\ UNCHANGED lastRead

\* the steps of a removeCacheEntry
RemoveSteps(t) ==
  \/ RemoveItem(t)
  \/ RemoveRead(t)
  \/ RemoveWrite(t)

\* the steps of a cacheAnalysis that removes nothing
WriteSteps(t) ==
  \/ KeyGenerated(t)
  \/ MaintainRead(t)
  \/ WriteEntry(t)
  \/ IndexRead(t)
  \/ IndexWrite(t)

\* the steps of a cacheAnalysis
CacheAnalysisSteps(t) == WriteSteps(t) \/ RemoveSteps(t)

\* the steps of a clearCache
ClearCacheSteps(t) == GetAllKeys(t) \/ MultiRemove(t)

UploadPercents == {25, 100}

HttpErrors == {AxiosNoResponse} \cup {AxiosStatus(status) : status \in ErrorStatuses}

\* the task of the hook's clearCache
HookTask == MaxTasks

Init ==
  /\ UnitsIdle
  /\ apiKey \in BOOLEAN
  /\ enableCache \in BOOLEAN
  /\ enableQueue \in BOOLEAN
  /\ connection = NotTested
  /\ ServiceIdle
  /\ startup = NoRead

\* the steps of the callers in `callers`, with the given inputs.  The cache
\* starts empty and cacheDuration is 0, so that no entry expires and no
\* cacheAnalysis finds MAX_CACHE_SIZE entries: no call removes an entry.
NextOf(callers, uris, images, contents, errors) ==
  \/ \E c \in callers, imageUri \in uris : AnalyzeImage(c, imageUri)
  \/ \E c \in callers, imageUri \in uris : Retry(c, imageUri)
  \/ \E c \in callers : ServiceReturned(c)
  \/ \E c \in callers : GetRead(c)
  \/ \E c \in callers : HookQueued(c)
  \/ \E c \in callers : ImageProcessed(c)
  \/ \E c \in callers, message \in images : ImageFailed(c, message)
  \/ \E c \in callers, content \in contents : HttpSucceeds(c, content)
  \/ \E c \in callers, error \in errors : HttpFails(c, error)
  \/ \E c \in callers : HttpCancelled(c)
  \/ \E c \in callers : DelayElapsed(c)
  \/ \E c \in callers : WriteSteps(c)
  \/ CancelCurrentRequest

\* messages of what validateImageFormat throws after FileSystem.getInfoAsync
\* and of what getImageInfo throws, both inside processImage
FailingImages == {"Image file not found", "Failed to get image information"}

\* one caller, whose calls follow one another
Next ==
  \/ NextOf({1}, ImageUris, FailingImages, ResponseContents, HttpErrors)
  \/ \E percent \in UploadPercents : UploadProgress(1, percent)

Spec == Init /\ [][Next]_vars

\* one caller of the hook, who also tests the connection and clears the
\* cache, on "C.jpg" and on "C"
HookUris == {<<67>> \o DotJpg, <<67>>}
HookContents == {ValidContent}
HookErrors == {AxiosStatus(503)}

NextHook ==
  \/ NextOf({1}, HookUris, FailingImages, HookContents, HookErrors)
  \/ TestConnection
  \/ \E isConnected \in BOOLEAN : ConnectionTested(isConnected)
  \/ StartClearCache(HookTask)
  \/ ClearCacheSteps(HookTask)

SpecHook == Init /\ [][NextHook]_vars

\* AsyncStorage starts to reject its reads, its writes or its removals
StorageFails(fault) ==
  /\ storageFault = NoFault
  /\ faults < MaxFaults
  /\ storageFault' = fault
  /\ faults' = faults + 1
  /\ UNCHANGED <<unitVars, hookVars, callVars, abortVars, storeVars,
                 processVars, cacheDuration, lastRead, tasks, started, now>>

StorageRecovers ==
  /\ storageFault # NoFault
  /\ storageFault' = NoFault
  /\ UNCHANGED faults
  /\ UNCHANGED <<unitVars, hookVars, callVars, abortVars, storeVars,
                 processVars, cacheDuration, lastRead, tasks, started, now>>

\* MaxCalls callers whose calls overlap, on one image
OverlapUris == {<<67>> \o DotJpg}
OverlapContents == {ValidContent}
OverlapErrors == {AxiosStatus(503)}

NextOverlap ==
  NextOf(Calls, OverlapUris, FailingImages, OverlapContents, OverlapErrors)

SpecOverlap == Init /\ [][NextOverlap]_vars

(***************************************************************************)
(* QueueManager.processQueue, a crash of the app and the load at startup   *)
(*                                                                         *)
(* saveQueue hands JSON.stringify(this.queue) to AsyncStorage when it is   *)
(* called: the saved queue is the queue of that moment.  qpc names what    *)
(* processQueue awaits:                                                    *)
(*   saving     the saveQueue after the request was marked 'processing'    *)
(*   handling   onProcess(request)                                         *)
(*   savingEnd  the saveQueue at the end of the iteration                  *)
(***************************************************************************)
QueueUris == {<<67>>}
QueuePriorities == {REQUEST_PRIORITY_HIGH, REQUEST_PRIORITY_NORMAL}

\* the queue holds none of the objects the processQueue calls hold
NotRequeued == [i \in Invocations |-> 0]

\* the body of the while loop up to its first await; the object that shift()
\* takes out of the queue is the one the loop holds from now on
TakeNext(i) ==
  /\ request' = [request EXCEPT ![i] = [Head(queue) EXCEPT !.status = "processing"]]
  /\ currentRequest' = request'[i]
  /\ queue' = Tail(queue)
  /\ requeued' = [j \in Invocations |->
                    IF j = i \/ requeued[j] <= 1 THEN 0 ELSE requeued[j] - 1]
  /\ persistedQueue' = saveQueue(storageFault, persistedQueue, queue')
  /\ qpc' = [qpc EXCEPT ![i] = "saving"]

\* the queue loadQueue builds from a saved queue
LoadedQueue(items) ==
  sortQueue([i \in DOMAIN items |->
               IF items[i].status = "processing"
               THEN [items[i] EXCEPT !.status = "pending"]
               ELSE items[i]])

AddToQueue(imageUri, priority) ==
  /\ issued < MaxRequests
  /\ queue' = addToQueue(queue, issued + 1, imageUri, priority, now)
  /\ requeued' =
       [i \in Invocations |->
          SortedPosition(Append(queue, QueuedRequest(issued + 1, imageUri,
                                                     priority, now)),
                         requeued[i])]
  /\ persistedQueue' = saveQueue(storageFault, persistedQueue, queue')
  /\ issued' = issued + 1
  /\ UNCHANGED <<unitVars, cacheOpVars, hookVars, callVars, abortVars, cache,
                 isProcessing, currentRequest, request, qpc, handled, startup, now>>

\* a variant without the isProcessing guard
ProceedsUnguarded(processing, q) == q # <<>>

\* `if (this.isProcessing || this.queue.length === 0) return;`
Proceeds(processing, q) == ~(processing \/ q = <<>>)

\* a call of processQueue up to its first await, or to its return
ProcessQueue(i) ==
  /\ qpc[i] = "idle"
  /\ IF Proceeds(isProcessing, queue)
     THEN /\ isProcessing' = TRUE
          /\ TakeNext(i)
     ELSE UNCHANGED <<isProcessing, currentRequest, request, requeued, qpc,
                      queue, persistedQueue>>
  /\ UNCHANGED <<unitVars, cacheOpVars, hookVars, callVars, abortVars, cache, issued,
                 handled, startup, now>>

\* the first saveQueue resolves and onProcess is called
QueueSaved(i) ==
  /\ qpc[i] = "saving"
  /\ handled[request[i].id] < MaxHandled
  /\ qpc' = [qpc EXCEPT ![i] = "handling"]
  /\ handled' = [handled EXCEPT ![request[i].id] = @ + 1]
  /\ UNCHANGED <<unitVars, cacheOpVars, hookVars, callVars, abortVars, storeVars,
                 isProcessing, currentRequest, request, requeued, startup, now>>

\* onProcess resolves
HandlerResolves(i) ==
  /\ qpc[i] = "handling"
  /\ request' = [request EXCEPT ![i].status = "completed"]
  /\ currentRequest' = IF currentRequest = NoRequest THEN NoRequest ELSE request'[i]
  /\ persistedQueue' = saveQueue(storageFault, persistedQueue, queue)
  /\ qpc' = [qpc EXCEPT ![i] = "savingEnd"]
  /\ UNCHANGED <<unitVars, cacheOpVars, hookVars, callVars, abortVars, cache, queue, issued,
                 isProcessing, requeued, handled, startup, now>>

\* a variant that gives a failed request one more try
RequeuesOnceMore(count) == count <= 3

\* `if (request.retryCount < 3)`
Requeues(count) == count < 3

\* onProcess rejects: the object the loop holds is pushed back into the
\* queue, or left out of it
HandlerRejects(i) ==
  /\ qpc[i] = "handling"
  /\ request' =
       IF Requeues(request[i].retryCount + 1)
       THEN [request EXCEPT ![i].retryCount = @ + 1, ![i].status = "pending",
                            ![i].priority = REQUEST_PRIORITY_HIGH]
       ELSE [request EXCEPT ![i].retryCount = @ + 1, ![i].status = "failed"]
  /\ currentRequest' = IF currentRequest = NoRequest THEN NoRequest ELSE request'[i]
  /\ queue' = IF Requeues(request[i].retryCount + 1)
              THEN sortQueue(Append(queue, request'[i]))
              ELSE queue
  /\ requeued' =
       IF Requeues(request[i].retryCount + 1)
       THEN [j \in Invocations |->
               SortedPosition(Append(queue, request'[i]),
                              IF j = i THEN Len(queue) + 1 ELSE requeued[j])]
       ELSE requeued
  /\ persistedQueue' = saveQueue(storageFault, persistedQueue, queue')
  /\ qpc' = [qpc EXCEPT ![i] = "savingEnd"]
  /\ UNCHANGED <<unitVars, cacheOpVars, hookVars, callVars, abortVars, cache, issued,
                 isProcessing, handled, startup, now>>

\* the last saveQueue of the iteration resolves: the next iteration, or the
\* end of the loop
IterationEnds(i) ==
  /\ qpc[i] = "savingEnd"
  /\ IF queue # <<>>
     THEN /\ TakeNext(i)
          /\ UNCHANGED isProcessing
     ELSE /\ currentRequest' = NoRequest
          /\ request' = [request EXCEPT ![i] = NoRequest]
          /\ requeued' = [requeued EXCEPT ![i] = 0]
          /\ isProcessing' = FALSE
          /\ qpc' = [qpc EXCEPT ![i] = "idle"]
          /\ UNCHANGED <<queue, persistedQueue>>
  /\ UNCHANGED <<unitVars, cacheOpVars, hookVars, callVars, abortVars, cache, issued,
                 handled, startup, now>>

\* the positions of the queue that hold the request
PositionsOf(q, id) == {k \in DOMAIN q : q[k].id = id}

\* the queue without its k-th request (splice)
Without(q, k) == SubSeq(q, 1, k - 1) \o SubSeq(q, k + 1, Len(q))

FirstOf(positions) == CHOOSE k \in positions : \A other \in positions : k <= other

\* updatePriority: the first request of the id, if it is pending, gets the
\* priority, and the queue is sorted and saved.  `request.priority = priority`
\* changes the object the queue holds: when it is the object that a
\* processQueue call put back, the `request` of that call and
\* this.currentRequest are the same object.
UpdatePriority(id, priority) ==
  /\ IF PositionsOf(queue, id) # {}
          /\ queue[FirstOf(PositionsOf(queue, id))].status = "pending"
     THEN LET found == FirstOf(PositionsOf(queue, id))
              updated == [queue EXCEPT ![found].priority = priority]
              shared == {i \in Invocations : requeued[i] = found}
          IN /\ queue' = sortQueue(updated)
             /\ requeued' = [i \in Invocations |->
                               SortedPosition(updated, requeued[i])]
             /\ request' = [i \in Invocations |->
                              IF i \in shared
                              THEN [request[i] EXCEPT !.priority = priority]
                              ELSE request[i]]
             /\ currentRequest' =
                  IF shared # {} /\ currentRequest # NoRequest
                  THEN [currentRequest EXCEPT !.priority = priority]
                  ELSE currentRequest
             /\ persistedQueue' = saveQueue(storageFault, persistedQueue, queue')
     ELSE UNCHANGED <<queue, persistedQueue, requeued, request, currentRequest>>
  /\ UNCHANGED <<unitVars, cacheOpVars, hookVars, callVars, abortVars, cache, issued,
                 isProcessing, qpc, handled, startup, now>>

\* cancelRequest: the first request of the id is taken out and the queue saved
CancelRequest(id) ==
  /\ IF PositionsOf(queue, id) # {}
     THEN LET found == FirstOf(PositionsOf(queue, id))
          IN /\ queue' = Without(queue, found)
             /\ requeued' = [i \in Invocations |->
                               IF requeued[i] = found THEN 0
                               ELSE IF requeued[i] > found THEN requeued[i] - 1
                               ELSE requeued[i]]
             /\ persistedQueue' = saveQueue(storageFault, persistedQueue, queue')
     ELSE UNCHANGED <<queue, persistedQueue, requeued>>
  /\ UNCHANGED <<unitVars, cacheOpVars, hookVars, callVars, abortVars, cache, issued,
                 isProcessing, currentRequest, request, qpc, handled, startup, now>>

ClearQueue ==
  /\ queue' = <<>>
  /\ requeued' = NotRequeued
  /\ currentRequest' = NoRequest
  /\ persistedQueue' = saveQueue(storageFault, persistedQueue, queue')
  /\ UNCHANGED <<unitVars, cacheOpVars, hookVars, callVars, abortVars, cache, issued,
                 isProcessing, request, qpc, handled, startup, now>>

\* the app is killed and started again: the memory of the QueueManager is
\* lost, its constructor calls loadQueue, which reads the saved queue
Restart ==
  /\ queue' = <<>>
  /\ isProcessing' = FALSE
  /\ currentRequest' = NoRequest
  /\ request' = [i \in Invocations |-> NoRequest]
  /\ requeued' = NotRequeued
  /\ qpc' = [i \in Invocations |-> "idle"]
  /\ startup' = ReadOf(persistedQueue)
  /\ UNCHANGED <<unitVars, cacheOpVars, hookVars, callVars, abortVars, cache,
                 persistedQueue, issued, handled, now>>

\* the read of loadQueue resolves, or rejects into the catch block; the
\* queue it builds holds new objects
LoadQueue ==
  /\ startup.active
  /\ queue' = IF "getItem" \in storageFault THEN <<>>
              ELSE IF startup.data.saved THEN LoadedQueue(startup.data.items)
              ELSE queue
  /\ requeued' = IF "getItem" \in storageFault \/ startup.data.saved
                 THEN NotRequeued
                 ELSE requeued
  /\ startup' = NoRead
  /\ UNCHANGED <<unitVars, cacheOpVars, hookVars, callVars, abortVars, cache,
                 persistedQueue, issued, isProcessing, currentRequest, request,
                 qpc, handled, now>>

Tick ==
  /\ now < MaxNow
  /\ now' = now + 1
  /\ UNCHANGED <<unitVars, cacheOpVars, hookVars, callVars, abortVars, storeVars, processVars>>

InitQueue ==
  /\ UnitsIdle
  /\ DefaultConfig
  /\ ServiceIdle
  /\ startup = ReadOf(NotStored)

\* the calls of the QueueManager, processQueue being called by `invocations`
\* and the requests given one of `priorities`
QueueSteps(invocations, priorities) ==
  \/ \E imageUri \in QueueUris, priority \in priorities :
       AddToQueue(imageUri, priority)
  \/ \E id \in RequestIds, priority \in priorities : UpdatePriority(id, priority)
  \/ \E id \in RequestIds : CancelRequest(id)
  \/ ClearQueue
  \/ \E i \in invocations : ProcessQueue(i)
  \/ \E i \in invocations : QueueSaved(i)
  \/ \E i \in invocations : HandlerResolves(i)
  \/ \E i \in invocations : HandlerRejects(i)
  \/ \E i \in invocations : IterationEnds(i)
  \/ Restart
  \/ LoadQueue

NextQueue ==
  \/ QueueSteps(Invocations, QueuePriorities)
  \/ Tick

SpecQueue == InitQueue /\ [][NextQueue]_vars

\* one caller of processQueue, and an AsyncStorage that fails and recovers at
\* any time
NextQueueFaulty ==
  \/ QueueSteps({1}, {REQUEST_PRIORITY_NORMAL})
  \/ \E fault \in StorageFaults : StorageFails(fault)
  \/ StorageRecovers

SpecQueueFaulty == InitQueue /\ [][NextQueueFaulty]_vars

\* a saveQueue that processQueue awaits resolves, and a handler that was
\* called resolves or rejects
ProcessQueueStep ==
  \E i \in Invocations :
    QueueSaved(i) \/ HandlerResolves(i) \/ HandlerRejects(i) \/ IterationEnds(i)

SpecQueueFair == SpecQueue /\ WF_vars(ProcessQueueStep)

(***************************************************************************)
(* The CacheManager called by MaxCalls callers, whose calls interleave,    *)
(* while time passes and the cache duration is set                         *)
(***************************************************************************)
\* "C"
CacheUris == {<<67>>}
CacheAnalyses == {parseResponse(ValidContent).data, parseResponse(SalvagedContent).data}
CacheDurations == {0, 1}

SetCacheDuration(duration) ==
  /\ cacheDuration' = duration
  /\ UNCHANGED <<unitVars, hookVars, callVars, abortVars, storeVars,
                 processVars, lastRead, tasks, storageFault, faults, started, now>>

\* the steps of the calls of the CacheManager that run as task t, on the
\* images `uris`
TaskSteps(t, uris, analyses) ==
  \/ \E imageUri \in uris, analysis \in analyses :
       StartCacheAnalysis(t, imageUri, analysis)
  \/ \E imageUri \in uris : StartGetCachedAnalysis(t, imageUri)
  \/ \E imageUri \in uris : StartInvalidateCache(t, imageUri)
  \/ StartClearCache(t)
  \/ CacheAnalysisSteps(t)
  \/ GetRead(t)
  \/ ClearCacheSteps(t)

InitCache ==
  /\ UnitsIdle
  /\ DefaultConfig
  /\ ServiceIdle
  /\ startup = NoRead

NextCache ==
  \/ \E duration \in CacheDurations : SetCacheDuration(duration)
  \/ \E t \in Calls : TaskSteps(t, CacheUris, CacheAnalyses)
  \/ Tick

SpecCache == InitCache /\ [][NextCache]_vars

(***************************************************************************)
(* The CacheManager called by MaxCalls callers, whose calls interleave,    *)
(* on a cache that holds an entry due to expire or none                    *)
(***************************************************************************)
\* "Aa" and "C"
TaskUris == {<<65, 97>>, <<67>>}
TaskAnalyses == {parseResponse(ValidContent).data}

\* the cache at the start: empty, or holding the entry "C" written at time 0
\* to expire at time 1
TaskCaches ==
  {EmptyCache,
   cacheAnalysis(EmptyCache, <<67>>, parseResponse(SalvagedContent).data, 1,
                 MAX_CACHE_SIZE, 0)}

\* the calls start at a time from 0 to MaxNow, and no time passes while
\* they run
InitTasks ==
  /\ UnitsIdle
  /\ DefaultConfig
  /\ CallsIdle
  /\ startup = NoRead
  /\ cache \in TaskCaches
  /\ cacheDuration \in CacheDurations
  /\ now \in 0..MaxNow

NextTasks == \E t \in Calls : TaskSteps(t, TaskUris, TaskAnalyses)

SpecTasks == InitTasks /\ [][NextTasks]_vars

(***************************************************************************)
(* cacheAnalysis on a cache that is full or nearly full                    *)
(***************************************************************************)
MaxAge == 60

\* how the timestamps of the entries follow the order of the index
Ages == {"ascending", "descending", "rotated", "tied", "same"}

AgeOf(age, i, n) ==
  CASE age = "ascending" -> i
    [] age = "descending" -> (n + 1) - i
    [] age = "rotated" -> ((i + 24) % n) + 1
    [] age = "tied" -> i \div 6
    [] OTHER -> 0

\* the cache after n images have been cached and some cached again
FilledCache(n, age) ==
  [key \in {generateCacheKey(<<64 + i>>) : i \in 1..n} \cup {indexKey} |->
     IF key = indexKey
     THEN CacheIndex([i \in 1..n |-> [key |-> generateCacheKey(<<64 + i>>),
                                      timestamp |-> AgeOf(age, i, n)]])
     ELSE LET i == CHOOSE i \in 1..n : key = generateCacheKey(<<64 + i>>)
          IN CacheEntry(parseResponse(ValidContent).data, AgeOf(age, i, n),
                        0, generateImageHash(<<64 + i>>))]

\* one caller, on "C.jpg" and on "C", and an AsyncStorage that starts to
\* reject and recovers at any time, between any two of its operations
FaultyUris == {<<67>> \o DotJpg, <<67>>}
FaultyContents == {ValidContent}
FaultyErrors == {AxiosStatus(503)}

\* the cache is empty, under every configuration of the hook, or it is full,
\* under the default configuration: the cacheAnalysis of an image that is
\* not in it removes the oldest fifth of its entries first
InitFaulty ==
  /\ UnitsIdle
  /\ \/ /\ apiKey \in BOOLEAN
        /\ enableCache \in BOOLEAN
        /\ enableQueue \in BOOLEAN
        /\ connection = NotTested
        /\ cache = EmptyCache
     \/ /\ DefaultConfig
        /\ cache = FilledCache(MAX_CACHE_SIZE, "same")
  /\ CallsIdle
  /\ cacheDuration = DEFAULT_DURATION
  /\ now = 0
  /\ startup = NoRead

NextFaulty ==
  \/ NextOf({1}, FaultyUris, FailingImages, FaultyContents, FaultyErrors)
  \/ RemoveSteps(1)
  \/ \E fault \in StorageFaults : StorageFails(fault)
  \/ StorageRecovers

SpecFaulty == InitFaulty /\ [][NextFaulty]_vars


\* the images cached next: the first and the last of the full cache, one
\* that is not in it, and " 8gs-", whose hash is "index"
PutUris ==
  {<<65>>, <<64 + MAX_CACHE_SIZE>>, <<65 + MAX_CACHE_SIZE>>, <<32, 56, 103, 115, 45>>}

InitEvict ==
  /\ UnitsIdle
  /\ DefaultConfig
  /\ CallsIdle
  /\ startup = NoRead
  /\ \E n \in {MAX_CACHE_SIZE - 1, MAX_CACHE_SIZE}, age \in Ages :
       cache = FilledCache(n, age)
  /\ cacheDuration = DEFAULT_DURATION
  /\ now = MaxAge

NextEvict ==
  \/ \E imageUri \in PutUris, analysis \in TaskAnalyses :
       StartCacheAnalysis(1, imageUri, analysis)
  \/ CacheAnalysisSteps(1)

SpecEvict == InitEvict /\ [][NextEvict]_vars

\* the calls of the CacheManager one after the other (a single task), on a
\* cache that is full or one entry short of it
NextCapacity ==
  \/ NextEvict
  \/ \E imageUri \in PutUris : StartGetCachedAnalysis(1, imageUri)
  \/ \E imageUri \in PutUris : StartInvalidateCache(1, imageUri)
  \/ StartClearCache(1)
  \/ GetRead(1)
  \/ ClearCacheSteps(1)

SpecCapacity == InitEvict /\ [][NextCapacity]_vars

(***************************************************************************)
(* Properties of the repair pass and of the schema validation              *)
(***************************************************************************)
\* the brackets and braces still open at the end of the text, outermost first
RECURSIVE OpenStack(_, _, _)
OpenStack(str, i, stack) ==
  IF i > Len(str) THEN stack
  ELSE IF IsP(str[i], "{") \/ IsP(str[i], "[")
  THEN OpenStack(str, i + 1, Append(stack, str[i].v))
  ELSE IF (IsP(str[i], "}") \/ IsP(str[i], "]")) /\ stack # <<>>
  THEN OpenStack(str, i + 1, SubSeq(stack, 1, Len(stack) - 1))
  ELSE OpenStack(str, i + 1, stack)

\* the text with its trailing comma removed and its open brackets and
\* braces closed, innermost first
NestedClose(str) ==
  LET t == Trim(str)
      u == IF t # <<>> /\ IsP(t[Len(t)], ",") THEN SubSeq(t, 1, Len(t) - 1) ELSE t
      stack == OpenStack(t, 1, <<>>)
  IN u \o [i \in 1..Len(stack) |->
             P(IF stack[Len(stack) + 1 - i] = "{" THEN "}" ELSE "]")]

\* a document cut inside a nested array or object, at a place where closing
\* what is open gives a valid document
TruncatedInNested(str) ==
  /\ ~isValidJSON(str)
  /\ Len(OpenStack(str, 1, <<>>)) >= 2
  /\ isValidJSON(NestedClose(str))

\* C7: for a JSON document truncated inside a nested array or object, the
\* repair pass followed by JSON.parse yields a valid value, equal to the
\* document with its open brackets and braces closed and its trailing comma
\* removed.
RepairRoundTrip ==
  (repaired.done /\ TruncatedInNested(jsonString))
    => /\ repaired.parsed.ok
       /\ repaired.parsed.val = JSONParse(NestedClose(jsonString)).val

LacksSection(d) ==
  \E i \in DOMAIN requiredFields : Get(d, requiredFields[i]).t = "undefined"

MusclesNotNonEmptyArray(d) ==
  \/ Get(d, "muscle_analysis").t # "arr"
  \/ Get(d, "muscle_analysis").a = <<>>

BadMuscleEntry(d) ==
  /\ Get(d, "muscle_analysis").t = "arr"
  /\ \E i \in DOMAIN Get(d, "muscle_analysis").a :
       LET m == Get(d, "muscle_analysis").a[i]
       IN \/ Get(m, "muscle_name").t = "undefined"
          \/ /\ Get(m, "development_score").t = "num"
             /\ Get(m, "development_score").n \notin 1..10

MinimalValidResponse ==
  ResponseOf(MetaGood, JArr(<<MuscleEntry(TRUE, JNum(7))>>),
             JObj([overall_physique_score |-> JNum(6)]), JArr(<<>>))

\* C8: validateAnalysisResponse rejects every response that lacks a required
\* section, whose muscle_analysis is not a non-empty array, or that has a
\* muscle entry without a name or with a score outside [1,10]; it accepts a
\* response with the four sections and exactly one named muscle entry
\* scored 7.
SchemaValidationDecision ==
  validation # "pending" =>
    /\ (LacksSection(data) \/ MusclesNotNonEmptyArray(data) \/ BadMuscleEntry(data))
         => validation # NoError
    /\ data = MinimalValidResponse => validation = NoError

SchemaValidationWitness ==
  /\ validation = NoError
  /\ data = MinimalValidResponse

(***************************************************************************)
(* Properties of the analysis service and of the hook                      *)
(***************************************************************************)
\* a retryable failure: no response, HTTP 429 or HTTP >= 500
RetryableOutcome(outcome) ==
  /\ outcome.axios
  /\ ~outcome.response \/ outcome.status = 429 \/ outcome.status >= 500

\* an HTTP response status that is not 429 and not >= 500
TerminalOutcome(outcome) ==
  /\ outcome.axios
  /\ outcome.response
  /\ outcome.status # 429
  /\ outcome.status < 500

\* C1: a call never issues more than maxRetries + 1 HTTP requests; a call
\* that has ended on a retryable failure (no response, HTTP 429, HTTP >= 500)
\* has issued exactly maxRetries + 1 requests and has returned success:false
\* with the classification of that failure, which is not UNKNOWN_ERROR.
RetryBound ==
  \A c \in Calls :
    /\ attempts[c] <= maxRetries + 1
    /\ (pc[c] = "done" /\ RetryableOutcome(lastOutcome[c]))
         => /\ attempts[c] = maxRetries + 1
            /\ ~response[c].success
            /\ response[c].error = handleError(lastOutcome[c])
            /\ response[c].error.code # "UNKNOWN_ERROR"

RetryBoundWitness ==
  \E c \in Calls :
    /\ pc[c] = "done"
    /\ lastOutcome[c] = AxiosStatus(503)
    /\ attempts[c] = maxRetries + 1
    /\ response[c].error.code = "SERVER_ERROR"

\* C2: an HTTP response whose status is not 429 and not >= 500 ends the
\* call: no attempt follows (one attempt when it answers the first one), and
\* the call returns an APIError with retryable = false, for status 401 with
\* code AUTH_ERROR.
NonRetryableShortCircuit ==
  \A c \in Calls :
    TerminalOutcome(lastOutcome[c])
      => /\ pc[c] = "done"
         /\ attempts[c] = retryCount[c] + 1
         /\ ~response[c].success
         /\ response[c].error.retryable = FALSE
         /\ lastOutcome[c].status = 401 => response[c].error.code = "AUTH_ERROR"

\* C3: once cancelCurrentRequest has run while a call had a request in
\* flight or was waiting in the delay between attempts, the call issues no
\* further HTTP request.
CancellationStopsWork ==
  [][\A c \in Calls : cancelled[c] => attempts'[c] <= attempts[c]]_vars

\* C4: with the queue enabled, at most one analysis HTTP request is in
\* flight at any time.
GlobalSerialization ==
  enableQueue => Cardinality({c \in Calls : pc[c] = "inflight"}) <= 1

\* the queue q holds the request `id` with status 'pending'
HoldsPending(q, id) ==
  \E i \in DOMAIN q : q[i].id = id /\ q[i].status = "pending"

\* C5: while processQueue handles a request (the request is marked
\* 'processing' and the queue has been saved, the handler has not finished),
\* the queue that loadQueue builds from the saved queue holds the request
\* with status 'pending'.
CrashRecovery ==
  \A i \in Invocations :
    qpc[i] \in {"saving", "handling"}
      => HoldsPending(LoadedQueue(persistedQueue.items), request[i].id)

\* C6: after analyzeImage has resolved, the request it enqueued is neither
\* in the in-memory queue nor in the saved queue with status 'pending'.
RequestLifecycle ==
  \A c \in Calls :
    (pc[c] = "done" /\ requestId[c] # 0)
      => /\ ~HoldsPending(queue, requestId[c])
         /\ ~HoldsPending(persistedQueue.items, requestId[c])

\* the muscle list of a response is non-empty and its scores lie in [1,10]
ScoresValid(analysis) ==
  /\ Get(analysis, "muscle_analysis").t = "arr"
  /\ Get(analysis, "muscle_analysis").a # <<>>
  /\ \A i \in DOMAIN Get(analysis, "muscle_analysis").a :
       LET score == Get(Get(analysis, "muscle_analysis").a[i], "development_score")
       IN score.t = "num" /\ score.n \in 1..10

\* the keys of the storage that hold an entry
StoredKeys(storage) == {key \in DOMAIN storage : ~IsArray(storage[key])}

EntriesValid == \A key \in StoredKeys(cache) : ScoresValid(cache[key].data)

\* a step that changes the entries of the cache is the cacheAnalysis of a
\* call whose response passed parseResponse, and writes that response
WriteAfterValidation ==
  (\E key \in StoredKeys(cache') : getItem(cache, key) # cache'[key])
    => \E c \in Calls :
         /\ pc[c] = "caching"
         /\ lastOutcome[c] = Succeeded
         /\ validateAnalysisResponse(response[c].data) = NoError
         /\ cache'[generateCacheKey(uri[c])].data = response[c].data
         /\ \A key \in StoredKeys(cache') \ {generateCacheKey(uri[c])} :
              getItem(cache, key) = cache'[key]

\* C9: every entry of the cache has a non-empty muscle list whose scores
\* all lie in [1,10], and the entries of the cache change only by the write
\* of a response that passed parsing, repair and validation.
ValidationGate == []EntriesValid /\ [][WriteAfterValidation]_vars

ValidationGateWitness ==
  \E c \in Calls :
    /\ pc[c] = "done"
    /\ response[c] = Failure(PlainError("Invalid response format from AI"))
    /\ getItem(cache, generateCacheKey(<<67>> \o DotJpg)) # NoEntry
    /\ getItem(cache, generateCacheKey(uri[c])) = NoEntry

\* the call is inside analyzeMuscleImage
InService(c) ==
  pc[c] \in {"hookQueue", "svcCache", "image", "inflight", "backoff", "caching"}

\* the data parseResponse salvages from the truncated response
SalvagedData == parseResponse(SalvagedContent).data

\* C10: when analyzeMuscleImage returns and the analyzeMuscleImage that
\* returned before it was given the same image and returned success:true
\* with cached=false, it returns success:true with cached=true and the same
\* data, and has issued no HTTP request.
CacheHitEndToEnd ==
  [][\A c \in Calls :
       (/\ InService(c)
        /\ pc'[c] = "done"
        /\ lastReturn.uri = uri[c]
        /\ lastReturn.response.success
        /\ ~lastReturn.response.cached)
         => /\ response'[c].success
            /\ response'[c].cached
            /\ response'[c].data = lastReturn.response.data
            /\ attempts'[c] = 0]_vars

CacheHitEndToEndWitness ==
  \E c \in Calls :
    /\ pc[c] = "done"
    /\ response[c].success
    /\ response[c].cached
    /\ response[c].data = SalvagedData
    /\ attempts[c] = 0

(***************************************************************************)
(* Properties of the results of analyzeMuscleImage                         *)
(***************************************************************************)
\* the values of the enum APIErrorCode that handleError assigns
ErrorCodes ==
  {"NETWORK_ERROR", "RATE_LIMIT", "API_TIMEOUT", "AUTH_ERROR", "SERVER_ERROR",
   "UNKNOWN_ERROR"}

\* an APIError that carries a code, a message, retryable and a userMessage
StructuredError(error) ==
  /\ error.code \in ErrorCodes
  /\ error.message # ""
  /\ error.retryable \in BOOLEAN
  /\ error.userMessage # ""

\* C11: a call that has ended either was answered by the hook from the
\* cache (analyzeMuscleImage was not called and left no response), or holds
\* a response of analyzeMuscleImage: success:true with data, or success:false
\* with an APIError carrying code, message, retryable and userMessage.
NoExceptionCrossesBoundary ==
  \A c \in Calls :
    pc[c] = "done"
      => IF response[c] = NoResponse
         THEN enableCache /\ getCachedAnalysis(cache, uri[c], now).hit
         ELSE IF response[c].success
         THEN response[c].data # Undefined /\ response[c].error = NoAPIError
         ELSE /\ response[c].data = Undefined
              /\ StructuredError(response[c].error)

NoExceptionCrossesBoundaryWitness ==
  \E c \in Calls :
    /\ pc[c] = "done"
    /\ lastOutcome[c] = Canceled
    /\ ~response[c].success
    /\ response[c].error.message = "Request cancelled by user"

(***************************************************************************)
(* Properties of the CacheManager                                          *)
(***************************************************************************)
\* the index of the cache names the key
Indexed(index, cacheKey) == \E i \in DOMAIN index : index[i].key = cacheKey

\* the getItem of the getCachedAnalysis that runs as task t resolves
ReadResolves(t) ==
  /\ Awaits(t, "getCachedAnalysis", "getRead")
  /\ tasks'[t] # tasks[t]

\* the removeCacheEntry of the getCachedAnalysis that runs as task t
Removing(t, awaited) == Awaits(t, "getCachedAnalysis", awaited)

\* C12: a getCachedAnalysis that finds an entry with expiresAt # 0 at a time
\* after expiresAt returns null, removes the entry from the store and, before
\* it returns, writes an index that does not name it; one that finds an
\* entry with expiresAt = 0 returns the data of the entry, whatever the time.
TTLInvariant ==
  [][\A t \in Calls :
       LET cacheKey == tasks[t].key
           cacheEntry == getItem(cache, cacheKey)
       IN /\ (ReadResolves(t) /\ cacheEntry # NoEntry)
               => /\ (cacheEntry.expiresAt # 0 /\ now > cacheEntry.expiresAt)
                       => /\ ~lastRead'.hit
                          /\ lastRead'.data = Undefined
                          /\ Removing(t, "removeItem")'
                  /\ cacheEntry.expiresAt = 0
                       => /\ lastRead'.hit
                          /\ lastRead'.data = cacheEntry.data
                          /\ Callable(t)'
          /\ (Removing(t, "removeItem") /\ tasks'[t] # tasks[t])
               => /\ cacheKey \notin DOMAIN cache'
                  /\ Removing(t, "removeRead")'
          /\ (Removing(t, "removeRead") /\ tasks'[t] # tasks[t])
               => Removing(t, "removeWrite")'
          /\ (Removing(t, "removeWrite") /\ tasks'[t] # tasks[t])
               => /\ ~Indexed(ItemsOf(cache'), cacheKey)
                  /\ Callable(t)']_vars

\* a getCachedAnalysis has found an expired entry and has returned: the key
\* is neither in the store nor in the index
TTLInvariantWitness ==
  /\ lastRead.entry # NoEntry
  /\ lastRead.entry.expiresAt # 0
  /\ now > lastRead.entry.expiresAt
  /\ ~lastRead.hit
  /\ \A t \in Calls : Callable(t)
  /\ getItem(cache, generateCacheKey(lastRead.uri)) = NoEntry
  /\ ~Indexed(ItemsOf(cache), generateCacheKey(lastRead.uri))
  /\ indexKey \in DOMAIN cache

\* the entry under the key has not expired
Unexpired(cacheKey) ==
  LET cacheEntry == getItem(cache, cacheKey)
  IN /\ cacheEntry # NoEntry
     /\ cacheEntry.expiresAt = 0 \/ now <= cacheEntry.expiresAt

\* C14: a getCachedAnalysis of an image whose entry has not expired changes
\* neither the store nor the index and returns the data of the entry, so
\* the next getCachedAnalysis of the image finds what this one found.
IdempotentReads ==
  [][\A t \in Calls :
       (ReadResolves(t) /\ Unexpired(tasks[t].key))
         => /\ cache' = cache
            /\ Callable(t)'
            /\ lastRead'.hit
            /\ lastRead'.data = cache[tasks[t].key].data
            /\ getCachedAnalysis(cache', tasks[t].uri, now') =
                 getCachedAnalysis(cache, tasks[t].uri, now)]_vars

\* a getCachedAnalysis has returned the data of an entry at the very time
\* the entry expires
IdempotentReadsWitness ==
  /\ lastRead.hit
  /\ lastRead.entry # NoEntry
  /\ lastRead.entry.expiresAt # 0
  /\ lastRead.entry.expiresAt = now
  /\ \A t \in Calls : Callable(t)
  /\ lastRead.entry = getItem(cache, generateCacheKey(lastRead.uri))
  /\ lastRead.data = lastRead.entry.data

NoDuplicateKey(cacheIndex) ==
  \A i, j \in DOMAIN cacheIndex : cacheIndex[i].key = cacheIndex[j].key => i = j

InSync(storage) ==
  /\ KeysOfItems(ItemsOf(storage)) = StoredKeys(storage)
  /\ NoDuplicateKey(ItemsOf(storage))

\* C19: whenever no call of the CacheManager is in progress, whatever the
\* calls made so far and however they interleaved, the keys in the index are
\* the keys of the entries in the store and no key is in the index twice.
IndexStoreSync == (\A t \in Tasks : tasks[t].pc = "idle") => InSync(cache)

\* two cacheAnalysis calls of different images have run and returned, both
\* entries are in the store, and the index names one of them
LostIndexUpdate ==
  /\ \A t \in Tasks : tasks[t].pc = "idle"
  /\ Cardinality(StoredKeys(cache)) = 2
  /\ Len(ItemsOf(cache)) = 1
  /\ \A key \in StoredKeys(cache) : cache[key].timestamp = now

\* the items of the index read by maintainCacheSize whose keys are no
\* longer in the index
EvictedItems(t) ==
  {i \in DOMAIN tasks[t].maintainIndex :
     tasks[t].maintainIndex[i].key \notin KeysOfItems(ItemsOf(cache))}

KeptItems(t) == DOMAIN tasks[t].maintainIndex \ EvictedItems(t)

\* a cacheAnalysis of an image whose hash is "index" has returned: its entry
\* is stored under the key of the index, in place of the index
IndexOverwritten ==
  /\ \A t \in Tasks : tasks[t].pc = "idle"
  /\ indexKey \in StoredKeys(cache)
  /\ Cardinality(StoredKeys(cache)) > MAX_CACHE_SIZE

\* C13: in a cacheAnalysis whose maintainCacheSize read an index of
\* maxCacheSize entries or more, when the entry is about to be written
\* floor(0.2 * maxCacheSize) entries have left the index and the store, none
\* of them newer than an entry that stayed; and when the call returns, the
\* index and the store hold fewer entries than that index held.
EvictionBound ==
  [][\A t \in Tasks :
       Len(tasks[t].maintainIndex) >= MAX_CACHE_SIZE
         => /\ WriteEntry(t)
                 => /\ Cardinality(EvictedItems(t)) = (MAX_CACHE_SIZE * 2) \div 10
                    /\ Len(ItemsOf(cache)) =
                         Len(tasks[t].maintainIndex) - ((MAX_CACHE_SIZE * 2) \div 10)
                    /\ StoredKeys(cache) = KeysOfItems(ItemsOf(cache))
                    /\ \A i \in EvictedItems(t), j \in KeptItems(t) :
                         tasks[t].maintainIndex[i].timestamp
                           <= tasks[t].maintainIndex[j].timestamp
            /\ (tasks[t].op = "cacheAnalysis" /\ Callable(t)')
                 => /\ Len(ItemsOf(cache')) < Len(tasks[t].maintainIndex)
                    /\ Cardinality(StoredKeys(cache'))
                         < Len(tasks[t].maintainIndex)]_vars

EvictionBoundWitness ==
  /\ tasks[1].pc = "indexWrite"
  /\ Len(tasks[1].maintainIndex) = MAX_CACHE_SIZE
  /\ tasks[1].maintainIndex[1].timestamp > tasks[1].maintainIndex[MAX_CACHE_SIZE].timestamp
  /\ Cardinality(EvictedItems(1)) = 10
  /\ Len(tasks[1].cacheIndex) = 41

\* the queue holds the request
Queued(q, id) == \E i \in DOMAIN q : q[i].id = id

\* C15: whatever AsyncStorage operation rejects, the cacheAnalysis of a call
\* whose request and parse succeeded is followed by the return of that
\* successful response with its data, and the addToQueue of a call is
\* followed by the call of the service, the request being in the queue under
\* the id addToQueue returned.
PersistenceFailuresNonFatal ==
  [][\A c \in Calls :
       /\ (pc[c] = "caching" /\ pc'[c] # "caching")
            => /\ pc'[c] = "done"
               /\ response[c].success
               /\ response[c].data # Undefined
               /\ response'[c] = response[c]
               /\ lastReturn' = Returned(uri[c], response[c])
       /\ (pc[c] = "hookQueue" /\ pc'[c] # "hookQueue")
            => /\ requestId[c] # 0
               /\ requestId'[c] = requestId[c]
               /\ Queued(queue, requestId[c])
               /\ pc'[c] = IF apiKey THEN "svcCache" ELSE "done"]_vars

\* the analysis of an image that is not in the full cache has returned its
\* data while AsyncStorage rejected every write and every removal: the queue
\* was not saved, none of the entries maintainCacheSize went to remove left
\* the storage, and the entry of the analysis was not written
PersistenceFailuresNonFatalWitness ==
  /\ storageFault = {"setItem", "removeItem"}
  /\ pc[1] = "done"
  /\ response[1] # NoResponse
  /\ response[1].success
  /\ response[1].data # Undefined
  /\ ~response[1].cached
  /\ requestId[1] # 0
  /\ persistedQueue = NotStored
  /\ cache = FilledCache(MAX_CACHE_SIZE, "same")
  /\ getItem(cache, generateCacheKey(uri[1])) = NoEntry

\* the same, the removal of the first entry alone having been rejected: that
\* entry is still stored and still in the index, the nine after it are in
\* neither, and the entry of the analysis is in both
EvictionFailedOnce ==
  /\ pc[1] = "done"
  /\ response[1].success
  /\ getItem(cache, generateCacheKey(<<65>>)) # NoEntry
  /\ getItem(cache, generateCacheKey(<<66>>)) = NoEntry
  /\ getItem(cache, generateCacheKey(uri[1])) # NoEntry
  /\ Len(ItemsOf(cache)) = MAX_CACHE_SIZE - 8
  /\ Cardinality(StoredKeys(cache)) = MAX_CACHE_SIZE - 8

\* the same, the reads having been rejected from the read of the index by
\* maintainCacheSize on: nothing was removed, and the index updateCacheIndex
\* wrote names the entry of the analysis alone
IndexReadFailed ==
  /\ storageFault = {"getItem"}
  /\ pc[1] = "done"
  /\ response[1].success
  /\ Cardinality(StoredKeys(cache)) = MAX_CACHE_SIZE + 1
  /\ Len(ItemsOf(cache)) = 1
  /\ ItemsOf(cache)[1].key = generateCacheKey(uri[1])

\* the same, the writes having been rejected after the write of the entry:
\* the entry of the analysis is stored and the index does not name it
IndexUpdateFailed ==
  /\ storageFault = {"setItem"}
  /\ pc[1] = "done"
  /\ response[1].success
  /\ getItem(cache, generateCacheKey(uri[1])) # NoEntry
  /\ generateCacheKey(uri[1]) \notin KeysOfItems(ItemsOf(cache))
  /\ Len(ItemsOf(cache)) = MAX_CACHE_SIZE - 10

(***************************************************************************)
(* Properties of the QueueManager                                          *)
(***************************************************************************)
\* a is handled no later than b: lower priority number first, then lower
\* timestamp
Precedes(a, b) ==
  \/ a.priority < b.priority
  \/ a.priority = b.priority /\ a.timestamp <= b.timestamp

Sorted(q) == \A k, l \in DOMAIN q : k < l => Precedes(q[k], q[l])

\* the ids of the queue after requests of priorities 5, 1, 5, 1 were added
\* at the times 0, 1, 2, 3
ExampleQueue ==
  addToQueue(
    addToQueue(
      addToQueue(
        addToQueue(<<>>, 1, <<67>>, REQUEST_PRIORITY_NORMAL, 0),
        2, <<67>>, REQUEST_PRIORITY_HIGH, 1),
      3, <<67>>, REQUEST_PRIORITY_NORMAL, 2),
    4, <<67>>, REQUEST_PRIORITY_HIGH, 3)

\* C16: the in-memory queue is sorted by priority, then by timestamp, at
\* every moment; the request processQueue takes precedes every request left
\* in the queue; and the requests of priorities 5, 1, 5, 1 added at
\* increasing times stand in the order 1 (earlier), 1 (later), 5 (earlier),
\* 5 (later).
QueueOrdering ==
  /\ [](Sorted(queue)
          /\ [k \in DOMAIN ExampleQueue |-> ExampleQueue[k].id] = <<2, 4, 1, 3>>)
  /\ [][\A i \in Invocations :
          (qpc'[i] = "saving" /\ qpc[i] # "saving")
            => \A k \in DOMAIN queue' : Precedes(request'[i], queue'[k])]_vars

QueueOrderingWitness ==
  /\ Len(queue) = 2
  /\ queue[1].priority = REQUEST_PRIORITY_HIGH
  /\ queue[2].priority = REQUEST_PRIORITY_NORMAL
  /\ queue[1].timestamp > queue[2].timestamp
  /\ queue[1].retryCount = 0
  /\ queue[1].id = 2

InLoop(i) == qpc[i] \in {"saving", "handling", "savingEnd"}

\* C17: at most one call of processQueue is in its loop, so at most one
\* handler is in flight; and a call of processQueue made while isProcessing
\* is set returns at once: it takes no request and calls no handler.
SerializedProcessing ==
  /\ [](Cardinality({i \in Invocations : InLoop(i)}) <= 1)
  /\ [][\A i \in Invocations :
          (isProcessing /\ ProcessQueue(i))
            => /\ qpc'[i] = "idle"
               /\ queue' = queue
               /\ handled' = handled]_vars

SerializedProcessingWitness ==
  /\ isProcessing
  /\ qpc[1] = "handling"
  /\ qpc[2] = "idle"
  /\ queue # <<>>

\* C18: when the handler of a request rejects for the n-th time, having
\* rejected each time before, the request has retryCount n; for n < 3 it is
\* back in the queue with status 'pending' and priority HIGH; for n = 3 it
\* has status 'failed' and is not in the queue; the handler is called at
\* most 3 times for a request; and a processQueue that runs ends if each
\* handler it calls completes.
BoundedQueueRetries ==
  /\ [](\A id \in RequestIds : handled[id] <= 3)
  /\ [][\A i \in Invocations :
          HandlerRejects(i)
            => LET id == request[i].id
               IN /\ request'[i].retryCount = handled[id]
                  /\ handled[id] < 3
                       => /\ request'[i].status = "pending"
                          /\ request'[i].priority = REQUEST_PRIORITY_HIGH
                          /\ \E k \in DOMAIN queue' : queue'[k] = request'[i]
                  /\ handled[id] >= 3
                       => /\ request'[i].status = "failed"
                          /\ request'[i].retryCount = 3
                          /\ PositionsOf(queue', id) = {}]_vars
  /\ (isProcessing ~> ~isProcessing)

BoundedQueueRetriesWitness ==
  \E i \in Invocations :
    /\ qpc[i] = "savingEnd"
    /\ request[i].status = "failed"
    /\ request[i].retryCount = 3
    /\ handled[request[i].id] = 3
    /\ PositionsOf(queue, request[i].id) = {}

(***************************************************************************)
(* Properties of the retry loop and the error classes                      *)
(***************************************************************************)
RetriedCodes == {"NETWORK_ERROR", "RATE_LIMIT", "API_TIMEOUT", "SERVER_ERROR"}

\* C20: a call that ends with an error of the class NETWORK_ERROR,
\* RATE_LIMIT, API_TIMEOUT or SERVER_ERROR has made maxRetries + 1 attempts.
RetriedErrorClasses ==
  \A c \in Calls :
    (/\ pc[c] = "done"
     /\ response[c] # NoResponse
     /\ ~response[c].success
     /\ response[c].error.code \in RetriedCodes)
      => attempts[c] = maxRetries + 1

\* the code the classification of a failure is expected to give
ExpectedCode(error) ==
  IF ~error.axios THEN "UNKNOWN_ERROR"
  ELSE IF ~error.response THEN "NETWORK_ERROR"
  ELSE IF error.status \in {401, 403} THEN "AUTH_ERROR"
  ELSE IF error.status = 429 THEN "RATE_LIMIT"
  ELSE IF error.status \in {408, 504} THEN "API_TIMEOUT"
  ELSE IF error.status >= 500 THEN "SERVER_ERROR"
  ELSE "UNKNOWN_ERROR"

\* C21: handleError gives every failure the code of its class (no response
\* NETWORK_ERROR, 401 and 403 AUTH_ERROR, 429 RATE_LIMIT, 408 and 504
\* API_TIMEOUT, any other status from 500 SERVER_ERROR, everything else
\* UNKNOWN_ERROR), and the APIError carries a non-empty userMessage
ErrorClassification ==
  classified.done =>
    /\ classified.error.code = ExpectedCode(thrown)
    /\ classified.error.userMessage # ""

ErrorClassificationWitness ==
  /\ classified.done
  /\ thrown = AxiosStatus(504)
  /\ classified.error.code = "API_TIMEOUT"

\* analyzeMuscleImage returned a failure to call c
Failed(c) ==
  /\ pc[c] = "done"
  /\ response[c] # NoResponse
  /\ ~response[c].success

\* the code of the failure that a cancelled attempt surfaces
CancellationCode == Failure(PlainError("Request cancelled by user")).error.code

\* C22: the failure analyzeMuscleImage surfaces for a cancelled attempt is
\* told apart by its error code from every other failure: a failed call has
\* the code of a cancellation exactly when its attempt was cancelled
CancellationDistinct ==
  \A c \in Calls :
    Failed(c) =>
      (response[c].error.code = CancellationCode <=> lastOutcome[c] = Canceled)

\* a call that ended on HTTP 400 carries the code of a cancellation
CancellationConfused ==
  \E c \in Calls :
    /\ Failed(c)
    /\ lastOutcome[c] = AxiosStatus(400)
    /\ response[c].error.code = CancellationCode

\* the error validateAnalysisResponse throws for a response content that
\* parses: NoError when the content does not parse or passes the validation
Violation(content) ==
  IF content = <<>> \/ ~JSONParse(JsonCandidate(content)).ok THEN NoError
  ELSE validateAnalysisResponse(JSONParse(JsonCandidate(content)).val)

\* C23: when the parsed response violates the schema, the message of the
\* APIError that analyzeMuscleImage returns is the one that names the missing
\* or invalid field; a response without `recommendations` yields
\* 'Missing required field: recommendations'
DescriptiveValidationErrors ==
  [][\A c \in Calls, content \in ResponseContents :
       HttpSucceeds(c, content) /\ Violation(content) # NoError =>
         response'[c].error.message = Violation(content)]_vars

\* a response without `recommendations` ended the call with the message
\* every failure of parseResponse gets
FieldNotNamed ==
  \E c \in Calls :
    /\ Failed(c)
    /\ lastOutcome[c] = Succeeded
    /\ Violation(MissingRecommendationsContent)
         = "Missing required field: recommendations"
    /\ response[c].error.message = "Invalid response format from AI"

\* the notification executeWithRetry sends before the delay of a retry
RetryNotification(state) == state.retryCount > 0

\* C24: within one analyzeMuscleImage call the progress values given to
\* onProgress never decrease, except at the notification of a retry
MonotoneProgress ==
  [][\A c \in Calls :
       (InService(c) /\ onProgress'[c] # onProgress[c]) =>
         \/ onProgress'[c].progress >= onProgress[c].progress
         \/ RetryNotification(onProgress'[c])]_vars

\* an upload percentage below the milestone delivered before it
ProgressFellBack ==
  \E c \in Calls :
    /\ pc[c] = "inflight"
    /\ onProgress[c].statusMessage = "Uploading..."
    /\ onProgress[c].progress < 30

\* C29: when analyzeImage resolves because the analysis failed, the last
\* state APIStateManager published has isLoading false, the APIError of the
\* failure as error and progress 0; no state with an error and progress 100
\* is ever published
FailedFinalState ==
  /\ \A c \in Calls :
       Failed(c) =>
         /\ ~currentState.isLoading
         /\ currentState.error = response[c].error
         /\ currentState.progress = 0
  /\ \A i \in DOMAIN published :
       ~(published[i].error # NoAPIError /\ published[i].progress = 100)

\* the failed call published its error with progress 0 and, after it, the
\* same error with progress 100
ErrorAtFullProgress ==
  \E c \in Calls :
    /\ Failed(c)
    /\ Len(published) >= 2
    /\ published[Len(published) - 1].error = response[c].error
    /\ published[Len(published) - 1].progress = 0
    /\ currentState.error = response[c].error
    /\ currentState.progress = 100
    /\ ~currentState.isLoading

\* C25: a request that addToQueue has put into the in-memory queue leaves it
\* only when processQueue takes it, when it is cancelled or when the queue is
\* cleared (or when the app is killed), also when addToQueue runs while the
\* constructor's loadQueue is still reading the saved queue
NoEnqueueLost ==
  [][\A id \in RequestIds :
       (Queued(queue, id) /\ ~Queued(queue', id)) =>
         \/ \E i \in Invocations : ProcessQueue(i) \/ IterationEnds(i)
         \/ CancelRequest(id)
         \/ ClearQueue
         \/ Restart]_vars

\* after the read of loadQueue has resolved, a request that addToQueue
\* accepted during the read is neither in the queue nor was it ever handled
EnqueueLostToLoad ==
  \E id \in RequestIds :
    /\ id <= issued
    /\ ~startup.active
    /\ ~Queued(queue, id)
    /\ handled[id] = 0
    /\ \A i \in Invocations : qpc[i] = "idle"
    /\ queue # <<>>
    /\ persistedQueue = Stored(<<QueuedRequest(id, <<67>>, REQUEST_PRIORITY_NORMAL, 0)>>)

\* clearQueue ran while the handler of invocation i was in flight (nothing
\* else sets currentRequest to null during a handler), and no addToQueue
\* followed it
ClearedInFlight(i) ==
  /\ qpc[i] = "handling"
  /\ currentRequest = NoRequest
  /\ queue = <<>>
  /\ persistedQueue = Stored(<<>>)

\* C26: after clearQueue the in-memory queue and the saved queue stay empty
\* until the next addToQueue, also when the handler that was in flight at the
\* time of clearQueue fails afterwards
ClearQueueFinal ==
  [][\A i \in Invocations :
       (ClearedInFlight(i) /\ HandlerRejects(i)) =>
         /\ queue' = <<>>
         /\ persistedQueue' = Stored(<<>>)]_vars

\* the request that was in flight is back in the cleared queue
ClearedQueueRefilled ==
  \E i \in Invocations :
    /\ qpc[i] = "savingEnd"
    /\ currentRequest = NoRequest
    /\ issued = 1
    /\ Len(queue) = 1
    /\ queue[1].id = 1
    /\ queue[1].retryCount = 1
    /\ persistedQueue = Stored(queue)

\* C27: when calls overlap on the service, cancelCurrentRequest aborts the
\* HTTP attempt of every call that has one in flight
CancelReachesEveryAttempt ==
  [][CancelCurrentRequest =>
       \A c \in Calls : pc[c] = "inflight" => signalAborted'[c]]_vars

\* after the cancel, one of two attempts in flight is aborted and the other
\* is not
AttemptOutlivesCancel ==
  \E c, other \in Calls :
    /\ pc[c] = "inflight"
    /\ pc[other] = "inflight"
    /\ cancelled[c]
    /\ cancelled[other]
    /\ abortController = 0
    /\ signalAborted[other]
    /\ ~signalAborted[c]

\* C28: with the calls of the CacheManager running one after the other and
\* no storage failure, the cache index never holds more than maxCacheSize
\* entries
CacheCapacity == Len(ItemsOf(cache)) <= MAX_CACHE_SIZE

\* a cacheAnalysis of a new image has returned and left the index full
CacheCapacityWitness ==
  /\ tasks[1].pc = "idle"
  /\ Len(ItemsOf(cache)) = MAX_CACHE_SIZE
  /\ ItemsOf(cache)[MAX_CACHE_SIZE].key = generateCacheKey(<<64 + MAX_CACHE_SIZE>>)
  /\ ItemsOf(cache)[MAX_CACHE_SIZE].timestamp = MaxAge

\* what furtherCompress returns is an encoding of at most config.maxFileSize
\* bytes
CompressReturnsFitting ==
  compression.outcome = "returned" => compression.size <= compression.maxFileSize

\* with config.quality 0.8 the quality is reset in the fifth iteration,
\* before the condition of the loop can see 0.3 or less: the throw after the
\* loop is not reached
CompressNeverGivesUp == compression.outcome # "unable"

=============================================================================
